---- MODULE Spec2Model ----
(***************************************************************************)
(* The AI core of the civic-suggestion application (src/app/ai.py): the    *)
(* provider cascade of categorize / summarize / analyze_sentiment /        *)
(* is_semantically_similar, the Gemini-only get_embedding, the three-pass  *)
(* check_duplicate and the metrics log written by track_ai_metric.         *)
(*                                                                         *)
(* Python values are tagged records: None is [none |-> TRUE], a str is     *)
(* [str |-> s], a bool is [bool |-> b], a list of floats is [list |-> v],  *)
(* a Suggestion row is the record of its columns.  A SQL NULL in a text    *)
(* column is the string NULL.  Strings cannot be indexed by TLC, so the    *)
(* characters of every text of the universe are given by Chars.            *)
(***************************************************************************)
EXTENDS Integers, Sequences, FiniteSets, TLC

VARIABLES
    GEMINI_API_KEY,       \* TRUE iff the environment variable is set (ai.py:29)
    GROQ_API_KEY,         \* ai.py:30
    OPENROUTER_API_KEY,   \* ai.py:31
    ai_service_status,    \* service -> 'available' flag (ai.py:34-38)
    metrics,              \* the AIMetrics table, in insertion order
    pc,                   \* position of the running public operation
    op,                   \* the public operation that is running
    text,                 \* its text argument (new_text of check_duplicate)
    existing_suggestions, \* candidates of check_duplicate
    idx,                  \* position of the semantic pass in existing_suggestions
    providers,            \* providers still to be attempted by the running cascade
    new_embedding,        \* value returned by get_embedding
    result,               \* value returned by the public operation
    \* observations of the running invocation
    log_at_call,          \* metrics when the invocation started
    emitted,              \* arguments of every track_ai_metric call, in order
    shuffled,             \* provider list the current cascade got from _get_available_providers
    attempts,             \* provider attempts of the current cascade, in order
    mark,                 \* counters when the current is_semantically_similar call began
    judged,               \* verdicts of is_semantically_similar, one per candidate judged
    probe_calls,          \* calls of check_ai_service_status
    embed_calls,          \* calls of get_embedding
    tier,                 \* pass of check_duplicate that produced the result
    previous,             \* what the providers did in the invocation before, if it is replayed
    \* requests served by threads of one process
    runs,                 \* per request thread: where it is in _get_available_providers
    \* the database tables the routes write, and the requests being served
    suggestion,           \* the suggestion table
    vote,                 \* the vote table
    community_area,       \* the community_area table
    announcement,         \* the announcement table
    landmark_image,       \* the landmark_image table
    request,              \* the request a route is serving across its AI calls
    trace,                \* AI operations the request has called, in order, with their results
    served,               \* the request served last and its response
    ballots               \* per request thread: where it is in the vote route

vars == <<GEMINI_API_KEY, GROQ_API_KEY, OPENROUTER_API_KEY, ai_service_status,
          metrics, pc, op, text, existing_suggestions, idx, providers,
          new_embedding, result, log_at_call, emitted, shuffled, attempts,
          mark, judged, probe_calls, embed_calls, tier, previous, runs,
          suggestion, vote, community_area, announcement, landmark_image,
          request, trace, served, ballots>>

\* the tables and the requests of the routes
site == <<suggestion, vote, community_area, announcement, landmark_image,
          request, trace, served, ballots>>

\* the state outside one invocation of the AI operations
web == <<runs, site>>

-----------------------------------------------------------------------------
(* Bounds of the model *)

\* longest candidate sequence handed to check_duplicate
MaxCands == 2
\* metrics writes that may fail within one invocation
MaxWriteFailures == 1
\* request threads served at the same time by one process
MaxThreads == 2
\* rows that a table the administrator manages may hold
MaxRows == 1
\* suggestions that may be submitted
MaxSubmitted == 1
\* submissions and edits that may be served
MaxRequests == 1
\* size of a vote counter of a suggestion that still takes votes
MaxVotes == 1
\* largest primary key of the vote table
MaxVoteId == 2

-----------------------------------------------------------------------------
(* Python values *)

None == [none |-> TRUE]
Pending == [pending |-> TRUE]
\* the operation was left by an exception instead of a return
Raised == [raised |-> TRUE]
Str(s) == [str |-> s]
Bool(b) == [bool |-> b]
List(v) == [list |-> v]
NULL == "NULL"

-----------------------------------------------------------------------------
(* Texts and str.lower() *)

\* texts a new suggestion is submitted with
NewTexts == { "Fix Main Road lights", "Mow Pine Park lights" }

\* every text of the universe
Texts ==
    { "Fix Main Road lights", "Mow Pine Park lights", "SIX MAIN ROAD LIGHTS",
      "Fix Mill Road lights", "Fix Mall Road lights", "Fix power on Main Rd",
      "Mow Pine Walk rights" }

\* texts that exercise the keyword rules and the truncation of the fallbacks
FallbackTexts ==
    { "There is a big pothole on Main Road",
      "Water and POWER at the school",
      "Police post at the hospital",
      "Broadband Education",
      "No Electric light",
      "Clean water for all",
      "Security and health",
      "Health centre school",
      "New school",
      "a b c d e f g h i j k l m n o p q r s t u v w x y z A B C D E",
      " a  b\tc w w w w w w w w w w w w w w w w w w w w w w w w w w w \n" }

AllTexts == Texts \cup FallbackTexts

Chars(t) ==
    CASE t = "Fix Main Road lights" -> <<"F","i","x"," ","M","a","i","n"," ","R","o","a","d"," ","l","i","g","h","t","s">>
      [] t = "Mow Pine Park lights" -> <<"M","o","w"," ","P","i","n","e"," ","P","a","r","k"," ","l","i","g","h","t","s">>
      [] t = "SIX MAIN ROAD LIGHTS" -> <<"S","I","X"," ","M","A","I","N"," ","R","O","A","D"," ","L","I","G","H","T","S">>
      [] t = "Fix Mill Road lights" -> <<"F","i","x"," ","M","i","l","l"," ","R","o","a","d"," ","l","i","g","h","t","s">>
      [] t = "Fix Mall Road lights" -> <<"F","i","x"," ","M","a","l","l"," ","R","o","a","d"," ","l","i","g","h","t","s">>
      [] t = "Fix power on Main Rd" -> <<"F","i","x"," ","p","o","w","e","r"," ","o","n"," ","M","a","i","n"," ","R","d">>
      [] t = "Mow Pine Walk rights" -> <<"M","o","w"," ","P","i","n","e"," ","W","a","l","k"," ","r","i","g","h","t","s">>
      [] t = "There is a big pothole on Main Road" -> <<"T","h","e","r","e"," ","i","s"," ","a"," ","b","i","g"," ","p","o","t","h","o","l","e"," ","o","n"," ","M","a","i","n"," ","R","o","a","d">>
      [] t = "Water and POWER at the school" -> <<"W","a","t","e","r"," ","a","n","d"," ","P","O","W","E","R"," ","a","t"," ","t","h","e"," ","s","c","h","o","o","l">>
      [] t = "Police post at the hospital" -> <<"P","o","l","i","c","e"," ","p","o","s","t"," ","a","t"," ","t","h","e"," ","h","o","s","p","i","t","a","l">>
      [] t = "Broadband Education" -> <<"B","r","o","a","d","b","a","n","d"," ","E","d","u","c","a","t","i","o","n">>
      [] t = "No Electric light" -> <<"N","o"," ","E","l","e","c","t","r","i","c"," ","l","i","g","h","t">>
      [] t = "Clean water for all" -> <<"C","l","e","a","n"," ","w","a","t","e","r"," ","f","o","r"," ","a","l","l">>
      [] t = "Security and health" -> <<"S","e","c","u","r","i","t","y"," ","a","n","d"," ","h","e","a","l","t","h">>
      [] t = "Health centre school" -> <<"H","e","a","l","t","h"," ","c","e","n","t","r","e"," ","s","c","h","o","o","l">>
      [] t = "New school" -> <<"N","e","w"," ","s","c","h","o","o","l">>
      [] t = "a b c d e f g h i j k l m n o p q r s t u v w x y z A B C D E" -> <<"a"," ","b"," ","c"," ","d"," ","e"," ","f"," ","g"," ","h"," ","i"," ","j"," ","k"," ","l"," ","m"," ","n"," ","o"," ","p"," ","q"," ","r"," ","s"," ","t"," ","u"," ","v"," ","w"," ","x"," ","y"," ","z"," ","A"," ","B"," ","C"," ","D"," ","E">>
      [] t = " a  b\tc w w w w w w w w w w w w w w w w w w w w w w w w w w w \n" -> <<" ","a"," "," ","b","\t","c"," ","w"," ","w"," ","w"," ","w"," ","w"," ","w"," ","w"," ","w"," ","w"," ","w"," ","w"," ","w"," ","w"," ","w"," ","w"," ","w"," ","w"," ","w"," ","w"," ","w"," ","w"," ","w"," ","w"," ","w"," ","w"," ","w"," ","w"," ","\n">>

LowerChar(c) ==
    CASE c = "A" -> "a"
      [] c = "B" -> "b"
      [] c = "C" -> "c"
      [] c = "D" -> "d"
      [] c = "E" -> "e"
      [] c = "F" -> "f"
      [] c = "G" -> "g"
      [] c = "H" -> "h"
      [] c = "I" -> "i"
      [] c = "J" -> "j"
      [] c = "K" -> "k"
      [] c = "L" -> "l"
      [] c = "M" -> "m"
      [] c = "N" -> "n"
      [] c = "O" -> "o"
      [] c = "P" -> "p"
      [] c = "Q" -> "q"
      [] c = "R" -> "r"
      [] c = "S" -> "s"
      [] c = "T" -> "t"
      [] c = "U" -> "u"
      [] c = "V" -> "v"
      [] c = "W" -> "w"
      [] c = "X" -> "x"
      [] c = "Y" -> "y"
      [] c = "Z" -> "z"
      [] OTHER -> c

\* str.lower() on the characters of a text
Lower(cs) == [k \in 1..Len(cs) |-> LowerChar(cs[k])]

-----------------------------------------------------------------------------
(* rapidfuzz.fuzz.ratio: 100 * 2*LCS(a, b) / (len(a) + len(b)), as a float; *)
(* it is kept as the exact fraction RatioNum / RatioDen.                    *)

Max2(a, b) == IF a >= b THEN a ELSE b

RECURSIVE LcsRow(_, _, _, _)
\* one row of the longest-common-subsequence table: cur[j+1] is the LCS
\* length of the prefix ending in character c and the first j characters of b
LcsRow(prev, c, b, cur) ==
    IF Len(cur) = Len(b) + 1 THEN cur
    ELSE LET j == Len(cur) IN
         LcsRow(prev, c, b,
                Append(cur, IF c = b[j] THEN prev[j] + 1
                            ELSE Max2(prev[j + 1], cur[j])))

RECURSIVE LcsFrom(_, _, _, _)
LcsFrom(a, b, k, prev) ==
    IF k > Len(a) THEN prev[Len(b) + 1]
    ELSE LET row == LcsRow(prev, a[k], b, <<0>>)
         IN  IF Len(row) = Len(b) + 1 THEN LcsFrom(a, b, k + 1, row) ELSE 0

Lcs(a, b) == LcsFrom(a, b, 1, [j \in 1..(Len(b) + 1) |-> 0])

RatioNum(a, b) == IF Len(a) + Len(b) = 0 THEN 100 ELSE 200 * Lcs(a, b)
RatioDen(a, b) == IF Len(a) + Len(b) = 0 THEN 1 ELSE Len(a) + Len(b)

\* fuzz.ratio(t1.lower(), t2.lower()) for every pair of texts, as <<num, den>>
LowerRatio ==
    [t1 \in Texts, t2 \in Texts |->
        LET a == Lower(Chars(t1))  b == Lower(Chars(t2))
        IN  <<RatioNum(a, b), RatioDen(a, b)>>]

\* fuzz.ratio(t1.lower(), t2.lower()) > k   and   ... < k
RatioAbove(t1, t2, k) == LowerRatio[t1, t2][1] > k * LowerRatio[t1, t2][2]
RatioBelow(t1, t2, k) == LowerRatio[t1, t2][1] < k * LowerRatio[t1, t2][2]

-----------------------------------------------------------------------------
(* Thresholds of the source *)

SimilarAbove == 90
DifferentBelow == 60
FallbackRatio == 85
TextDupRatio == 85
\* the embedding threshold 0.85 as the fraction CosineNum / CosineDen
CosineNum == 85
CosineDen == 100
SummaryTokens == 30

-----------------------------------------------------------------------------
(* Embeddings: json.loads of the stored column and sklearn's cosine_similarity *)

\* vectors genai.embed_content may return for a text
EmbeddingVectors == { <<1, 0>>, <<0, 1>> }

\* json.loads(s) succeeds and yields a list of numbers; it raises on "[1, 0"
JsonIsList(s) == s \in { "[5, 3]", "[1, 0, 0]", "[1, 0]", "[0, 1]" }
JsonLoads(s) ==
    CASE s = "[5, 3]" -> <<5, 3>>
      [] s = "[1, 0, 0]" -> <<1, 0, 0>>
      [] s = "[1, 0]" -> <<1, 0>>
      [] s = "[0, 1]" -> <<0, 1>>

\* json.dumps of a list get_embedding returned
JsonDumps(v) ==
    CASE v = <<1, 0>> -> "[1, 0]"
      [] v = <<0, 1>> -> "[0, 1]"

RECURSIVE DotFrom(_, _, _)
DotFrom(a, b, k) == IF k > Len(a) THEN 0 ELSE a[k] * b[k] + DotFrom(a, b, k + 1)
Dot(a, b) == DotFrom(a, b, 1)

\* cosine_similarity([a], [b]) raises ValueError on vectors of different length
CosineRaises(a, b) == Len(a) # Len(b)

\* cosine_similarity([a], [b])[0][0] > 0.85; a zero vector has similarity 0
CosineAbove(a, b) ==
    LET d == Dot(a, b) IN
    /\ d > 0
    /\ CosineDen * CosineDen * d * d > CosineNum * CosineNum * Dot(a, a) * Dot(b, b)

\* `if sugg.embedding_vector:` is false for NULL and for the empty string
Truthy(s) == s # NULL /\ s # ""

\* body of the embedding loop for one candidate: TRUE iff it returns sugg
EmbeddingMatch(emb, sugg) ==
    /\ Truthy(sugg.embedding_vector)
    /\ JsonIsList(sugg.embedding_vector)
    /\ ~CosineRaises(emb, JsonLoads(sugg.embedding_vector))
    /\ CosineAbove(emb, JsonLoads(sugg.embedding_vector))

RECURSIVE EmbeddingPass_last(_, _, _)
\* mutant: the embedding loop keeps the last match instead of returning the first
EmbeddingPass_last(emb, suggs, k) ==
    IF k > Len(suggs) THEN None
    ELSE LET rest == EmbeddingPass_last(emb, suggs, k + 1) IN
         IF rest # None THEN rest
         ELSE IF EmbeddingMatch(emb, suggs[k]) THEN suggs[k] ELSE None

RECURSIVE EmbeddingPass_abort(_, _, _)
\* mutant: a candidate that does not match ends the embedding loop
EmbeddingPass_abort(emb, suggs, k) ==
    IF k > Len(suggs) THEN None
    ELSE IF ~Truthy(suggs[k].embedding_vector)
    THEN EmbeddingPass_abort(emb, suggs, k + 1)
    ELSE IF EmbeddingMatch(emb, suggs[k]) THEN suggs[k]
    ELSE None

RECURSIVE EmbeddingPass(_, _, _)
\* the loop of ai.py:345-356 from candidate k on: the first match, else None
EmbeddingPass(emb, suggs, k) ==
    IF k > Len(suggs) THEN None
    ELSE IF EmbeddingMatch(emb, suggs[k]) THEN suggs[k]
    ELSE EmbeddingPass(emb, suggs, k + 1)

\* mutant: `>=` instead of `>` in the lexical pass
LexicalMatch_ge(t, sugg) == ~RatioBelow(t, sugg.text, TextDupRatio)

LexicalMatch(t, sugg) == RatioAbove(t, sugg.text, TextDupRatio)

RECURSIVE LexicalPass_last(_, _, _)
\* mutant: the lexical loop keeps the last match instead of returning the first
LexicalPass_last(t, suggs, k) ==
    IF k > Len(suggs) THEN None
    ELSE LET rest == LexicalPass_last(t, suggs, k + 1) IN
         IF rest # None THEN rest
         ELSE IF LexicalMatch(t, suggs[k]) THEN suggs[k] ELSE None

RECURSIVE LexicalPass_vetoed(_, _, _)
\* mutant: a candidate a provider was asked about is not looked at again
LexicalPass_vetoed(t, suggs, k) ==
    IF k > Len(suggs) THEN None
    ELSE IF LexicalMatch(t, suggs[k]) /\ ~(k <= Len(judged) /\ judged[k].attempts # <<>>)
    THEN suggs[k]
    ELSE LexicalPass_vetoed(t, suggs, k + 1)

RECURSIVE LexicalPass(_, _, _)
\* the loop of ai.py:360-365 from candidate k on: the first match, else None
LexicalPass(t, suggs, k) ==
    IF k > Len(suggs) THEN None
    ELSE IF LexicalMatch(t, suggs[k]) THEN suggs[k]
    ELSE LexicalPass(t, suggs, k + 1)

\* mutant: the `< 60` shortcut is missing
QuickVerdict_nolow(t1, t2) ==
    IF RatioAbove(t1, t2, SimilarAbove) THEN "true" ELSE "ai"

\* the pre-filter of is_semantically_similar: "true", "false" or "ai"
QuickVerdict(t1, t2) ==
    IF RatioAbove(t1, t2, SimilarAbove) THEN "true"
    ELSE IF RatioBelow(t1, t2, DifferentBelow) THEN "false"
    ELSE "ai"

\* mutant: `>=` instead of `>` in the fallback threshold
FallbackVerdict_ge(t1, t2) == ~RatioBelow(t1, t2, FallbackRatio)

\* the verdict of is_semantically_similar when every provider failed
FallbackVerdict(t1, t2) == RatioAbove(t1, t2, FallbackRatio)

-----------------------------------------------------------------------------
(* Approved suggestions that can be candidates *)

Suggestions ==
    { [id |-> 1, text |-> "SIX MAIN ROAD LIGHTS", embedding_vector |-> NULL],
      [id |-> 2, text |-> "Fix Mill Road lights", embedding_vector |-> "[1, 0, 0]"],
      [id |-> 3, text |-> "Fix Mall Road lights", embedding_vector |-> "[1, 0"],
      [id |-> 4, text |-> "Fix power on Main Rd", embedding_vector |-> "[5, 3]"],
      [id |-> 5, text |-> "Mow Pine Walk rights", embedding_vector |-> "[5, 3]"] }

Range(s) == { s[k] : k \in 1..Len(s) }

\* sequences of distinct rows, as a query returns them
CandidateLists ==
    UNION { { s \in [1..n -> Suggestions] : \A j, k \in 1..n : j # k => s[j] # s[k] }
            : n \in 0..MaxCands }

-----------------------------------------------------------------------------
(* Providers and their responses *)

Services == { "gemini", "groq", "openrouter" }

categories == { "Roads", "Power", "Water", "Security", "Health", "Education", "Other" }
sentiments == { "Positive", "Neutral", "Negative" }

\* operation kind written to the metrics log by each public operation
OperationOf(o) ==
    CASE o = "categorize" -> "categorize"
      [] o = "summarize" -> "summarize"
      [] o = "analyze_sentiment" -> "sentiment"
      [] o = "check_duplicate" -> "duplicate_check"
      [] o = "get_embedding" -> "embedding"

\* message contents a generation provider may answer with
Replies(operation) ==
    CASE operation = "categorize" -> { "Roads", "Water ", "roads" }
      [] operation = "summarize" -> { "The lights on Main Road need repair. " }
      [] operation = "sentiment" -> { "Negative", " Positive", "negative" }
      [] operation = "duplicate_check" -> { "YES", "no", "Maybe" }

\* str.strip()
Strip(r) ==
    CASE r = "Water " -> "Water"
      [] r = " Positive" -> "Positive"
      [] r = "The lights on Main Road need repair. " -> "The lights on Main Road need repair."
      [] OTHER -> r

\* str.upper()
Upper(r) ==
    CASE r = "no" -> "NO"
      [] r = "Maybe" -> "MAYBE"
      [] OTHER -> r

\* what one provider call can do: raise, answer with a non-200 status
\* (requests.post only), or answer with a message content
Outcomes(provider, operation) ==
    { [kind |-> "exception", content |-> ""] }
    \cup (IF provider = "openrouter" THEN { [kind |-> "http", content |-> ""] } ELSE {})
    \cup { [kind |-> "reply", content |-> r] : r \in Replies(operation) }

\* mutant: the answer is returned without the membership test
ReplyValid_any(operation, r) == TRUE

\* validation of a message content: is it in the expected shape, and the
\* value the operation returns for it
ReplyValid(operation, r) ==
    CASE operation = "categorize" -> Strip(r) \in categories
      [] operation = "summarize" -> TRUE
      [] operation = "sentiment" -> Strip(r) \in sentiments
      [] operation = "duplicate_check" -> Upper(Strip(r)) \in { "YES", "NO" }

ReplyValue(operation, r) ==
    IF operation = "duplicate_check" THEN Bool(Upper(Strip(r)) = "YES")
    ELSE Str(Strip(r))

InvalidMessage(operation) ==
    CASE operation = "categorize" -> "Invalid category"
      [] operation = "sentiment" -> "Invalid sentiment"
      [] operation = "duplicate_check" -> "Invalid answer"
      [] OTHER -> "None"

\* the AIMetrics row built by track_ai_metric
Metric(operation, provider, success, response_time, error_message) ==
    [operation |-> operation, provider |-> provider, success |-> success,
     response_time |-> response_time, error_message |-> error_message]

\* mutant: the success is recorded before the answer is validated
AttemptMetric_early(operation, provider, out) ==
    IF out.kind = "reply"
    THEN Metric(operation, provider, TRUE, "elapsed", "None")
    ELSE IF out.kind = "http"
    THEN Metric(operation, provider, FALSE, "elapsed", "HTTP status")
    ELSE Metric(operation, provider, FALSE, "elapsed", "exception")

\* mutant: every attempt is recorded under the first provider's name
AttemptMetric_groq(operation, provider, out) ==
    IF out.kind = "reply" /\ ReplyValid(operation, out.content)
    THEN Metric(operation, "groq", TRUE, "elapsed", "None")
    ELSE IF out.kind = "reply"
    THEN Metric(operation, "groq", FALSE, "elapsed", InvalidMessage(operation))
    ELSE Metric(operation, "groq", FALSE, "elapsed", "exception")

\* the row one provider attempt hands to track_ai_metric
AttemptMetric(operation, provider, out) ==
    IF out.kind = "reply" /\ ReplyValid(operation, out.content)
    THEN Metric(operation, provider, TRUE, "elapsed", "None")
    ELSE IF out.kind = "reply"
    THEN Metric(operation, provider, FALSE, "elapsed", InvalidMessage(operation))
    ELSE IF out.kind = "http"
    THEN Metric(operation, provider, FALSE, "elapsed", "HTTP status")
    ELSE Metric(operation, provider, FALSE, "elapsed", "exception")

\* mutant: the fallback is recorded with a measured latency
FallbackMetric_timed(operation) == Metric(operation, "fallback", TRUE, "elapsed", "None")

\* mutant: the fallback is recorded as a failure
FallbackMetric_failed(operation) == Metric(operation, "fallback", FALSE, "0.0", "None")

FallbackMetric(operation) == Metric(operation, "fallback", TRUE, "0.0", "None")

-----------------------------------------------------------------------------
(* Local fallbacks *)

\* `needle in hay` on character sequences
Contains(hay, needle) ==
    \E st \in 0..(Len(hay) - Len(needle)) :
        \A k \in 1..Len(needle) : hay[st + k] = needle[k]

kw_road == <<"r","o","a","d">>
kw_power == <<"p","o","w","e","r">>
kw_electric == <<"e","l","e","c","t","r","i","c">>
kw_water == <<"w","a","t","e","r">>
kw_security == <<"s","e","c","u","r","i","t","y">>
kw_police == <<"p","o","l","i","c","e">>
kw_health == <<"h","e","a","l","t","h">>
kw_hospital == <<"h","o","s","p","i","t","a","l">>
kw_education == <<"e","d","u","c","a","t","i","o","n">>
kw_school == <<"s","c","h","o","o","l">>

\* mutant: the keywords are looked for in the text as written
KeywordCategory_cased(t) ==
    LET l == Chars(t) IN
    IF Contains(l, kw_road) THEN "Roads"
    ELSE IF Contains(l, kw_power) \/ Contains(l, kw_electric) THEN "Power"
    ELSE IF Contains(l, kw_water) THEN "Water"
    ELSE IF Contains(l, kw_security) \/ Contains(l, kw_police) THEN "Security"
    ELSE IF Contains(l, kw_health) \/ Contains(l, kw_hospital) THEN "Health"
    ELSE IF Contains(l, kw_education) \/ Contains(l, kw_school) THEN "Education"
    ELSE "Other"

\* the keyword rules of ai.py:219-225, in their order
KeywordCategory(t) ==
    LET l == Lower(Chars(t)) IN
    IF Contains(l, kw_road) THEN "Roads"
    ELSE IF Contains(l, kw_power) \/ Contains(l, kw_electric) THEN "Power"
    ELSE IF Contains(l, kw_water) THEN "Water"
    ELSE IF Contains(l, kw_security) \/ Contains(l, kw_police) THEN "Security"
    ELSE IF Contains(l, kw_health) \/ Contains(l, kw_hospital) THEN "Health"
    ELSE IF Contains(l, kw_education) \/ Contains(l, kw_school) THEN "Education"
    ELSE "Other"

IsSpace(c) == c \in { " ", "\t", "\n" }

\* the positions where a maximal run of non-whitespace characters starts
TokenStarts(cs) ==
    { i \in 1..Len(cs) : ~IsSpace(cs[i]) /\ (i = 1 \/ IsSpace(cs[i - 1])) }

\* the last position of the run that starts at position i
TokenEnd(cs, i) ==
    LET ends == { j \in i..Len(cs) : j = Len(cs) \/ IsSpace(cs[j + 1]) }
    IN  CHOOSE j \in ends : \A e \in ends : j <= e

\* str.split(): the maximal runs of non-whitespace characters, in order
Split(cs) ==
    LET starts == TokenStarts(cs) IN
    [n \in 1..Cardinality(starts) |->
        LET s == CHOOSE i \in starts : Cardinality({ j \in starts : j < i }) = n - 1
        IN  SubSeq(cs, s, TokenEnd(cs, s))]

RECURSIVE JoinBetween(_, _, _)
\* ' '.join(tokens[lo-1:hi]), put together from its two halves
JoinBetween(tokens, lo, hi) ==
    IF lo > hi THEN <<>>
    ELSE IF lo = hi THEN tokens[lo]
    ELSE LET mid == (lo + hi) \div 2
         IN  JoinBetween(tokens, lo, mid) \o <<" ">> \o JoinBetween(tokens, mid + 1, hi)
Join(tokens) == JoinBetween(tokens, 1, Len(tokens))

Min2(a, b) == IF a <= b THEN a ELSE b

\* mutant: the ellipsis is appended from 30 tokens on
TruncatedSummary_ge(t) ==
    LET tokens == Split(Chars(t)) IN
    Join(SubSeq(tokens, 1, Min2(SummaryTokens, Len(tokens))))
    \o (IF Len(tokens) >= SummaryTokens THEN <<".", ".", ".">> ELSE <<>>)

\* ' '.join(text.split()[:30]) + ('...' if len(text.split()) > 30 else '')
TruncatedSummary(t) ==
    LET tokens == Split(Chars(t)) IN
    Join(SubSeq(tokens, 1, Min2(SummaryTokens, Len(tokens))))
    \o (IF Len(tokens) > SummaryTokens THEN <<".", ".", ".">> ELSE <<>>)

\* what the keyword rules and the truncation give for every text of the universe
KeywordCategories == [t \in AllTexts |-> KeywordCategory(t)]
TruncatedSummaries == [t \in AllTexts |-> TruncatedSummary(t)]

\* mutant: the keyword rules end without `return 'Other'`
FallbackValue_nodefault(o, t, sugg_text) ==
    CASE o = "categorize" ->
             IF KeywordCategories[t] = "Other" THEN None ELSE Str(KeywordCategories[t])
      [] o = "summarize" -> [chars |-> TruncatedSummaries[t]]
      [] o = "analyze_sentiment" -> Str("Neutral")
      [] o = "check_duplicate" -> Bool(FallbackVerdict(t, sugg_text))

\* the value the local fallback of a generation operation returns
FallbackValue(o, t, sugg_text) ==
    CASE o = "categorize" -> Str(KeywordCategories[t])
      [] o = "summarize" -> [chars |-> TruncatedSummaries[t]]
      [] o = "analyze_sentiment" -> Str("Neutral")
      [] o = "check_duplicate" -> Bool(FallbackVerdict(t, sugg_text))

-----------------------------------------------------------------------------
(* State machine *)

\* no earlier invocation is replayed
NoCall == [called |-> FALSE]

\* no request is being served
NoRun == [pc |-> "idle"]

\* no route is being served
NoRequest == [route |-> "none"]

\* no request has been served yet
NoForm == [text |-> "", location |-> ""]
NoLast ==
    [route |-> "none", who |-> "nobody", id |-> 0, response |-> "none", before |-> {},
     form |-> NoForm, n |-> 0]

\* empty tables, no request
SiteIdle ==
    /\ suggestion = {}
    /\ vote = {}
    /\ community_area = {}
    /\ announcement = {}
    /\ landmark_image = {}
    /\ request = NoRequest
    /\ trace = <<>>
    /\ served = NoLast
    /\ ballots = <<>>

WebIdle ==
    /\ runs = <<>>
    /\ SiteIdle

Init ==
    /\ GEMINI_API_KEY \in BOOLEAN
    /\ GROQ_API_KEY \in BOOLEAN
    /\ OPENROUTER_API_KEY \in BOOLEAN
    /\ ai_service_status = [s \in Services |-> FALSE]
    /\ metrics = <<>>
    /\ pc = "idle"
    /\ op = "none"
    /\ text = ""
    /\ existing_suggestions = <<>>
    /\ idx = 1
    /\ providers = <<>>
    /\ new_embedding = None
    /\ result = Pending
    /\ log_at_call = <<>>
    /\ emitted = <<>>
    /\ shuffled = <<>>
    /\ attempts = <<>>
    /\ mark = [emitted |-> 0, probes |-> 0]
    /\ judged = <<>>
    /\ probe_calls = 0
    /\ embed_calls = 0
    /\ tier = "none"
    /\ previous = NoCall
    /\ WebIdle

\* logs that earlier invocations have left in the ai_metrics table
PriorLogs ==
    { <<Metric("duplicate_check", "groq", FALSE, "elapsed", "Invalid answer"),
        Metric("embedding", "gemini", TRUE, "elapsed", "None")>> }

\* the state of a process whose log already holds the records of earlier
\* invocations (every operation that reads the availability map probes first)
InitLog ==
    /\ GEMINI_API_KEY \in BOOLEAN
    /\ GROQ_API_KEY \in BOOLEAN
    /\ OPENROUTER_API_KEY \in BOOLEAN
    /\ ai_service_status = [s \in Services |-> FALSE]
    /\ metrics \in PriorLogs
    /\ pc = "idle"
    /\ op = "none"
    /\ text = ""
    /\ existing_suggestions = <<>>
    /\ idx = 1
    /\ providers = <<>>
    /\ new_embedding = None
    /\ result = Pending
    /\ log_at_call = metrics
    /\ emitted = <<>>
    /\ shuffled = <<>>
    /\ attempts = <<>>
    /\ mark = [emitted |-> 0, probes |-> 0]
    /\ judged = <<>>
    /\ probe_calls = 0
    /\ embed_calls = 0
    /\ tier = "none"
    /\ previous = NoCall
    /\ WebIdle

keys == <<GEMINI_API_KEY, GROQ_API_KEY, OPENROUTER_API_KEY>>

CanCall == pc = "idle"

\* a public operation o is entered with text t and candidates ex
Enter(o, t, ex, at) ==
    /\ op' = o
    /\ text' = t
    /\ existing_suggestions' = ex
    /\ pc' = at
    /\ idx' = 1
    /\ providers' = <<>>
    /\ new_embedding' = None
    /\ result' = Pending
    /\ log_at_call' = metrics
    /\ emitted' = <<>>
    /\ shuffled' = <<>>
    /\ attempts' = <<>>
    /\ mark' = [emitted |-> 0, probes |-> 0]
    /\ judged' = <<>>
    /\ probe_calls' = 0
    /\ embed_calls' = 0
    /\ tier' = "none"
    /\ UNCHANGED <<keys, ai_service_status, metrics>>

Call_categorize ==
    /\ CanCall
    /\ \E t \in AllTexts : Enter("categorize", t, <<>>, "probe")
    /\ UNCHANGED previous
    /\ UNCHANGED web

Call_summarize ==
    /\ CanCall
    /\ \E t \in AllTexts : Enter("summarize", t, <<>>, "probe")
    /\ UNCHANGED previous
    /\ UNCHANGED web

Call_analyze_sentiment ==
    /\ CanCall
    /\ \E t \in AllTexts : Enter("analyze_sentiment", t, <<>>, "probe")
    /\ UNCHANGED previous
    /\ UNCHANGED web

Call_get_embedding ==
    /\ CanCall
    /\ \E t \in AllTexts : Enter("get_embedding", t, <<>>, "embed")
    /\ UNCHANGED previous
    /\ UNCHANGED web

Call_check_duplicate ==
    /\ CanCall
    /\ \E t \in NewTexts, ex \in CandidateLists : Enter("check_duplicate", t, ex, "sem")
    /\ UNCHANGED previous
    /\ UNCHANGED web

\* availability maps the liveness probe can leave: a service without an API
\* key is marked unavailable, one with a key is available iff its test call
\* succeeded
ProbeResults ==
    { st \in [Services -> BOOLEAN] :
        /\ st["gemini"] => GEMINI_API_KEY
        /\ st["groq"] => GROQ_API_KEY
        /\ st["openrouter"] => OPENROUTER_API_KEY }

\* the services answer the probe as they did in the replayed invocation
ProbeAnswers == IF previous.called THEN { previous.status } ELSE ProbeResults

check_ai_service_status ==
    /\ pc = "probe"
    /\ ai_service_status' \in ProbeAnswers
    /\ probe_calls' = probe_calls + 1
    /\ pc' = "build"
    /\ UNCHANGED <<keys, previous, metrics, op, text, existing_suggestions, idx, providers,
                   new_embedding, result, log_at_call, emitted, shuffled, attempts,
                   mark, judged, embed_calls, tier>>
    /\ UNCHANGED web

\* random.shuffle: every ordering of the list
Shuffles(s) ==
    { p \in [1..Len(s) -> Range(s)] : \A e \in Range(s) : \E k \in 1..Len(s) : p[k] = e }

\* mutant: the availability map is not consulted
AvailableProviders_unfiltered(status) == <<"groq", "openrouter">>

AvailableProviders(status) == SelectSeq(<<"groq", "openrouter">>, LAMBDA p : status[p])

\* the rest of _get_available_providers, after the probe
get_available_providers ==
    /\ pc = "build"
    /\ providers' \in Shuffles(AvailableProviders(ai_service_status))
    /\ shuffled' = providers'
    /\ pc' = "loop"
    /\ UNCHANGED <<keys, previous, ai_service_status, metrics, op, text, existing_suggestions,
                   idx, new_embedding, result, log_at_call, emitted, attempts, mark,
                   judged, probe_calls, embed_calls, tier>>
    /\ UNCHANGED web

\* mutant: the write updates the newest row instead of inserting one
track_ai_metric_update(log, rec, ok) ==
    IF ~ok THEN log
    ELSE IF log = <<>> THEN <<rec>>
    ELSE [log EXCEPT ![Len(log)] = rec]

\* db.session.add + commit inside try/except: the row is appended unless the
\* write raises, which is swallowed
track_ai_metric(log, rec, ok) == IF ok THEN Append(log, rec) ELSE log

\* mutant: the write is not wrapped in try/except
WriteRaises_unguarded(ok) == ~ok

\* `except Exception` around the write: a failed write is printed, never raised
WriteRaises(ok) == FALSE

WriteFailures == Len(emitted) - (Len(metrics) - Len(log_at_call))
\* a route commits on the session track_ai_metric commits on: while a route
\* is being served the database is taken to accept every write
WriteOutcomes ==
    { TRUE } \cup (IF WriteFailures < MaxWriteFailures /\ request.route = "none"
                   THEN { FALSE } ELSE {})

\* what is known of one is_semantically_similar call when it returns v
JudgedRecord(v, att, shf, emi, mk) ==
    [verdict |-> v.bool, probes |-> probe_calls - mk.probes, attempts |-> att,
     shuffled |-> shf, emitted |-> SubSeq(emi, mk.emitted + 1, Len(emi))]

\* mutant: a match is recorded but the loop goes on instead of returning
SemanticReturn_noreturn(v, att, shf, emi, mk) ==
    /\ judged' = Append(judged, JudgedRecord(v, att, shf, emi, mk))
    /\ idx' = idx + 1
    /\ pc' = "sem"
    /\ IF v.bool
       THEN result' = existing_suggestions[idx] /\ tier' = "semantic"
       ELSE UNCHANGED <<result, tier>>

\* is_semantically_similar returns v to the semantic loop of check_duplicate
SemanticReturn(v, att, shf, emi, mk) ==
    /\ judged' = Append(judged, JudgedRecord(v, att, shf, emi, mk))
    /\ IF v.bool
       THEN /\ result' = existing_suggestions[idx]
            /\ tier' = "semantic"
            /\ pc' = "done"
            /\ idx' = idx
       ELSE /\ idx' = idx + 1
            /\ pc' = "sem"
            /\ UNCHANGED <<result, tier>>

\* the running cascade returns v
CascadeReturn(v, att, emi) ==
    IF op = "check_duplicate"
    THEN SemanticReturn(v, att, shuffled, emi, mark)
    ELSE /\ result' = v
         /\ pc' = "done"
         /\ UNCHANGED <<idx, judged, tier>>

\* the pre-filter of is_semantically_similar for the next candidate
is_semantically_similar ==
    /\ pc = "sem"
    /\ idx <= Len(existing_suggestions)
    /\ LET q == QuickVerdict(text, existing_suggestions[idx].text)
           mk == [emitted |-> Len(emitted), probes |-> probe_calls]
       IN  /\ mark' = mk
           /\ attempts' = <<>>
           /\ shuffled' = <<>>
           /\ IF q = "ai"
              THEN /\ pc' = "probe"
                   /\ UNCHANGED <<idx, result, judged, tier>>
              ELSE SemanticReturn(Bool(q = "true"), <<>>, <<>>, emitted, mk)
    /\ UNCHANGED <<keys, previous, ai_service_status, metrics, op, text, existing_suggestions,
                   providers, new_embedding, log_at_call, emitted, probe_calls,
                   embed_calls>>
    /\ UNCHANGED web

\* mutant: a failed provider is tried again
RestAfter_retry(ps) == ps

\* the providers the loop still has to visit after the first of ps
RestAfter(ps) == Tail(ps)

\* what the provider answers now: what it answered in the replayed
\* invocation if it was asked there, anything it can do otherwise
Answers(provider, operation) ==
    IF previous.called /\ \E a \in 1..Len(previous.attempts) :
                             previous.attempts[a].provider = provider
    THEN { [kind |-> previous.attempts[a].kind, content |-> previous.attempts[a].content] :
             a \in { b \in 1..Len(previous.attempts) :
                       previous.attempts[b].provider = provider } }
    ELSE Outcomes(provider, operation)

\* one iteration of `for provider in providers`
ProviderAttempt ==
    /\ pc = "loop"
    /\ providers # <<>>
    /\ \E out \in Answers(Head(providers), OperationOf(op)), ok \in WriteOutcomes :
        LET p == Head(providers)
            operation == OperationOf(op)
            rec == AttemptMetric(operation, p, out)
            att == Append(attempts, [provider |-> p, kind |-> out.kind,
                                     content |-> out.content])
            emi == Append(emitted, rec)
        IN  /\ attempts' = att
            /\ emitted' = emi
            /\ metrics' = track_ai_metric(metrics, rec, ok)
            /\ IF WriteRaises(ok)
               THEN /\ result' = Raised
                    /\ pc' = "done"
                    /\ UNCHANGED <<providers, idx, judged, tier>>
               ELSE IF out.kind = "reply" /\ ReplyValid(operation, out.content)
               THEN /\ CascadeReturn(ReplyValue(operation, out.content), att, emi)
                    /\ providers' = providers
               ELSE /\ providers' = RestAfter(providers)
                    /\ UNCHANGED <<pc, idx, result, judged, tier>>
    /\ UNCHANGED <<keys, previous, ai_service_status, op, text, existing_suggestions,
                   new_embedding, log_at_call, shuffled, mark, probe_calls, embed_calls>>
    /\ UNCHANGED web

\* the code after the loop: every provider failed, or none was available
LocalFallback ==
    /\ pc = "loop"
    /\ providers = <<>>
    /\ \E ok \in WriteOutcomes :
        LET rec == FallbackMetric(OperationOf(op))
            emi == Append(emitted, rec)
            st == IF op = "check_duplicate" THEN existing_suggestions[idx].text ELSE ""
        IN  /\ emitted' = emi
            /\ metrics' = track_ai_metric(metrics, rec, ok)
            /\ IF WriteRaises(ok)
               THEN /\ result' = Raised
                    /\ pc' = "done"
                    /\ UNCHANGED <<idx, judged, tier>>
               ELSE CascadeReturn(FallbackValue(op, text, st), attempts, emi)
    /\ UNCHANGED <<keys, previous, ai_service_status, op, text, existing_suggestions, providers,
                   new_embedding, log_at_call, shuffled, attempts, mark, probe_calls,
                   embed_calls>>
    /\ UNCHANGED web

\* what genai.embed_content can do: raise (None) or return a vector
EmbeddingOutcomes == { None } \cup { List(v) : v \in EmbeddingVectors }

\* the row get_embedding hands to track_ai_metric
EmbeddingMetric(out) ==
    IF out = None
    THEN Metric("embedding", "gemini", FALSE, "elapsed", "exception")
    ELSE Metric("embedding", "gemini", TRUE, "elapsed", "None")

\* one call of get_embedding(text): without an API key it returns None and
\* records nothing; otherwise embed_content is called once and recorded;
\* new_embedding' is what the call returns, or Raised
GetEmbedding ==
    /\ embed_calls' = embed_calls + 1
    /\ IF ~GEMINI_API_KEY
       THEN /\ new_embedding' = None
            /\ UNCHANGED <<metrics, emitted>>
       ELSE \E out \in EmbeddingOutcomes, ok \in WriteOutcomes :
              /\ new_embedding' = IF WriteRaises(ok) THEN Raised ELSE out
              /\ emitted' = Append(emitted, EmbeddingMetric(out))
              /\ metrics' = track_ai_metric(metrics, EmbeddingMetric(out), ok)

\* get_embedding invoked as a public operation
get_embedding ==
    /\ pc = "embed"
    /\ GetEmbedding
    /\ result' = new_embedding'
    /\ pc' = "done"
    /\ UNCHANGED <<keys, previous, ai_service_status, op, text, existing_suggestions, idx,
                   providers, log_at_call, shuffled, attempts, mark, judged,
                   probe_calls, tier>>
    /\ UNCHANGED web

\* `if new_embedding:` is false for None and for an empty list
EmbeddingUsable(e) == e # None /\ e.list # <<>>

\* mutant: the lexical pass is nested under `if new_embedding:`
PassesResult_nested(emb, t, suggs) ==
    IF ~EmbeddingUsable(emb) THEN None
    ELSE LET e == EmbeddingPass(emb.list, suggs, 1)
         IN  IF e # None THEN e ELSE LexicalPass(t, suggs, 1)

\* the value check_duplicate returns once the semantic pass found nothing:
\* the embedding pass when the embedding is usable, then the lexical pass
PassesResult(emb, t, suggs) ==
    LET e == IF EmbeddingUsable(emb) THEN EmbeddingPass(emb.list, suggs, 1) ELSE None
    IN  IF e # None THEN e ELSE LexicalPass(t, suggs, 1)

PassesTier(emb, t, suggs) ==
    IF EmbeddingUsable(emb) /\ EmbeddingPass(emb.list, suggs, 1) # None THEN "embedding"
    ELSE IF LexicalPass(t, suggs, 1) # None THEN "lexical"
    ELSE "none"

\* check_duplicate after its semantic loop (ai.py:341-368): get_embedding,
\* the embedding pass and the lexical pass
check_duplicate_passes ==
    /\ pc = "sem"
    /\ idx > Len(existing_suggestions)
    /\ GetEmbedding
    /\ IF new_embedding' = Raised
       THEN result' = Raised /\ tier' = "none"
       ELSE /\ result' = PassesResult(new_embedding', text, existing_suggestions)
            /\ tier' = PassesTier(new_embedding', text, existing_suggestions)
    /\ pc' = "done"
    /\ UNCHANGED <<keys, previous, ai_service_status, op, text, existing_suggestions, idx,
                   providers, log_at_call, shuffled, attempts, mark, judged,
                   probe_calls>>
    /\ UNCHANGED web

Next ==
    \/ Call_categorize
    \/ Call_summarize
    \/ Call_analyze_sentiment
    \/ Call_get_embedding
    \/ Call_check_duplicate
    \/ check_ai_service_status
    \/ get_available_providers
    \/ is_semantically_similar
    \/ ProviderAttempt
    \/ LocalFallback
    \/ get_embedding
    \/ check_duplicate_passes

Spec == Init /\ [][Next]_vars

\* categorize is called a second time with the text of the first call, the
\* services and providers answering as they did the first time
Call_categorize_again ==
    /\ pc = "done"
    /\ op = "categorize"
    /\ ~previous.called
    /\ previous' = [called |-> TRUE, result |-> result, status |-> ai_service_status,
                    attempts |-> attempts, shuffled |-> shuffled]
    /\ Enter("categorize", text, <<>>, "probe")
    /\ UNCHANGED web

NextTwice ==
    \/ Call_categorize
    \/ check_ai_service_status
    \/ get_available_providers
    \/ ProviderAttempt
    \/ LocalFallback
    \/ Call_categorize_again

SpecTwice == Init /\ [][NextTwice]_vars

\* one invocation in a process that has served invocations before
SpecLog == InitLog /\ [][Next]_vars

\* an operation that was called runs on: no step of it waits for anything
\* but the provider's answer, which the model draws at once
FairSpec == Spec /\ WF_vars(Next)

-----------------------------------------------------------------------------
(* Request threads of one process: each one runs _get_available_providers   *)
(* on the module-level availability map of ai.py:34-38                      *)

\* the variables of one invocation of the AI operations, and the log
core == <<metrics, pc, op, text, existing_suggestions, idx, providers, new_embedding,
          result, log_at_call, emitted, shuffled, attempts, mark, judged, probe_calls,
          embed_calls, tier, previous>>

\* no operation has been invoked
CoreIdle ==
    /\ pc = "idle"
    /\ op = "none"
    /\ text = ""
    /\ existing_suggestions = <<>>
    /\ idx = 1
    /\ providers = <<>>
    /\ new_embedding = None
    /\ result = Pending
    /\ log_at_call = <<>>
    /\ emitted = <<>>
    /\ shuffled = <<>>
    /\ attempts = <<>>
    /\ mark = [emitted |-> 0, probes |-> 0]
    /\ judged = <<>>
    /\ probe_calls = 0
    /\ embed_calls = 0
    /\ tier = "none"
    /\ previous = NoCall

Threads == 1..MaxThreads

InitRuns ==
    /\ GEMINI_API_KEY \in BOOLEAN
    /\ GROQ_API_KEY \in BOOLEAN
    /\ OPENROUTER_API_KEY \in BOOLEAN
    /\ ai_service_status = [s \in Services |-> FALSE]
    /\ metrics = <<>>
    /\ CoreIdle
    /\ runs = [t \in Threads |-> NoRun]
    /\ SiteIdle

\* a request thread enters _get_available_providers
run_get_available_providers(t) ==
    /\ runs[t].pc = "idle"
    /\ runs' = [runs EXCEPT ![t] = [pc |-> "gemini", seen |-> [s \in Services |-> FALSE],
                                    providers |-> <<>>]]
    /\ UNCHANGED <<keys, ai_service_status, core, site>>

\* one block of check_ai_service_status: the test call of a service and the
\* write of its entry of the shared map; seen keeps what this thread wrote
ProbeService(t, service, key, at, then) ==
    /\ runs[t].pc = at
    /\ \E ok \in (IF key THEN BOOLEAN ELSE { FALSE }) :
        /\ ai_service_status' = [ai_service_status EXCEPT ![service] = ok]
        /\ runs' = [runs EXCEPT ![t].seen[service] = ok, ![t].pc = then]
    /\ UNCHANGED <<keys, core, site>>

run_check_gemini(t) == ProbeService(t, "gemini", GEMINI_API_KEY, "gemini", "groq")
run_check_groq(t) == ProbeService(t, "groq", GROQ_API_KEY, "groq", "openrouter")
run_check_openrouter(t) ==
    ProbeService(t, "openrouter", OPENROUTER_API_KEY, "openrouter", "read")

\* the list comprehension over the shared map and the shuffle
run_build_providers(t) ==
    /\ runs[t].pc = "read"
    /\ \E ps \in Shuffles(AvailableProviders(ai_service_status)) :
        runs' = [runs EXCEPT ![t].providers = ps, ![t].pc = "built"]
    /\ UNCHANGED <<keys, ai_service_status, core, site>>

NextRuns ==
    \/ \E t \in Threads : run_get_available_providers(t)
    \/ \E t \in Threads : run_check_gemini(t)
    \/ \E t \in Threads : run_check_groq(t)
    \/ \E t \in Threads : run_check_openrouter(t)
    \/ \E t \in Threads : run_build_providers(t)

SpecRuns == InitRuns /\ [][NextRuns]_vars

-----------------------------------------------------------------------------
(* Vocabulary of the properties *)

DupDone == pc = "done" /\ op = "check_duplicate"
NCands == Len(existing_suggestions)
Cand(k) == existing_suggestions[k]
Least(S) == CHOOSE k \in S : \A j \in S : k <= j

\* lexical ratio of the new text and candidate k
CandRatioAbove(k, n) == RatioAbove(text, Cand(k).text, n)
CandRatioBelow(k, n) == RatioBelow(text, Cand(k).text, n)
InBand(k) == ~CandRatioAbove(k, 90) /\ ~CandRatioBelow(k, 60)

\* cosine similarity of two vectors is defined and > 0.85 (0.85^2 = 289/400)
SimilarityAbove085(a, b) ==
    /\ Len(a) = Len(b)
    /\ Dot(a, b) > 0
    /\ 400 * Dot(a, b) * Dot(a, b) > 289 * Dot(a, a) * Dot(b, b)

\* candidates judged the same idea by the semantic pass
SemanticHits == { k \in 1..Len(judged) : judged[k].verdict }
\* candidates whose stored embedding is close to the new text's embedding
EmbeddingHits ==
    IF new_embedding = None THEN {}
    ELSE { k \in 1..NCands :
            /\ Cand(k).embedding_vector # NULL
            /\ JsonIsList(Cand(k).embedding_vector)
            /\ SimilarityAbove085(new_embedding.list, JsonLoads(Cand(k).embedding_vector)) }
\* candidates whose lexical ratio with the new text is > 85
LexicalHits == { k \in 1..NCands : CandRatioAbove(k, 85) }

-----------------------------------------------------------------------------
(* C1 *)

\* C1 as claimed: check_duplicate returns the first candidate, in input
\* order, that any tier (semantic, embedding, lexical) matches.
C1_FirstOfAnyTier ==
    DupDone =>
        LET hits == SemanticHits \cup EmbeddingHits \cup LexicalHits
        IN  result = IF hits = {} THEN None ELSE Cand(Least(hits))

\* C1 as amended: the tiers are passes over the whole candidate sequence, so
\* check_duplicate returns the first candidate, in input order, of the
\* earliest tier that matches any candidate (semantic, then embedding, then
\* lexical), and None when no tier matches.
C1_FirstOfEarliestTier ==
    DupDone =>
        result = IF SemanticHits # {} THEN Cand(Least(SemanticHits))
                 ELSE IF EmbeddingHits # {} THEN Cand(Least(EmbeddingHits))
                 ELSE IF LexicalHits # {} THEN Cand(Least(LexicalHits))
                 ELSE None

\* the first of two candidates is returned although the second one alone
\* would be returned too (its ratio is > 90): the order decides
C1_OrderDecides ==
    /\ DupDone
    /\ NCands = 2
    /\ result = Cand(1)
    /\ InBand(1)
    /\ CandRatioAbove(2, 90)

-----------------------------------------------------------------------------
(* C2 *)

\* C2: a pair whose ratio is > 90 or < 60 is decided without probe, provider
\* attempt or metric record; the verdict is true iff the ratio is > 90.
C2_QuickVerdictWithoutProvider ==
    op = "check_duplicate" =>
        \A k \in 1..Len(judged) :
            ~InBand(k) =>
                /\ judged[k].probes = 0
                /\ judged[k].attempts = <<>>
                /\ judged[k].emitted = <<>>
                /\ judged[k].verdict = CandRatioAbove(k, 90)

\* a pair below 60 was rejected and a pair above 90 accepted, the log untouched
C2_BothShortcutsTaken ==
    /\ DupDone
    /\ Len(judged) = 2
    /\ CandRatioBelow(1, 60) /\ ~judged[1].verdict
    /\ CandRatioAbove(2, 90) /\ judged[2].verdict
    /\ metrics = log_at_call
    /\ probe_calls = 0

-----------------------------------------------------------------------------
(* C3 *)

\* the answer of attempt a is a valid YES / NO
ValidAnswer(a) == a.kind = "reply" /\ Upper(Strip(a.content)) \in { "YES", "NO" }

\* C3: in the band 60..90 the verdict is that of the first provider, in the
\* shuffled order of the available providers, that answers YES or NO; when
\* none does, the verdict is (ratio > 85).
C3_AmbiguousBandVerdict ==
    op = "check_duplicate" =>
        \A k \in 1..Len(judged) :
            InBand(k) =>
                LET j == judged[k]
                    n == Len(j.attempts)
                IN  /\ j.probes = 1
                    /\ n <= Len(j.shuffled)
                    /\ \A a \in 1..n : j.attempts[a].provider = j.shuffled[a]
                    /\ \A a \in 1..(n - 1) : ~ValidAnswer(j.attempts[a])
                    /\ IF n > 0 /\ ValidAnswer(j.attempts[n])
                       THEN j.verdict = (Upper(Strip(j.attempts[n].content)) = "YES")
                       ELSE /\ n = Len(j.shuffled)
                            /\ j.verdict = CandRatioAbove(k, 85)
                    /\ (k = Len(judged) /\ pc \in { "sem", "done" }) =>
                           /\ Range(j.shuffled) =
                                 { p \in { "groq", "openrouter" } : ai_service_status[p] }
                           /\ Len(j.shuffled) = Cardinality(Range(j.shuffled))

\* a pair at ratio 90: the first provider failed, the second answered "no",
\* and the verdict is false although the ratio is > 85
C3_SecondProviderDecides ==
    /\ op = "check_duplicate"
    /\ Len(judged) = 1
    /\ InBand(1)
    /\ CandRatioAbove(1, 85)
    /\ Len(judged[1].attempts) = 2
    /\ judged[1].attempts[2].content = "no"
    /\ ~judged[1].verdict

-----------------------------------------------------------------------------
(* C4 *)

\* C4: check_duplicate returns None exactly when no tier matches any
\* candidate; in particular for an empty candidate sequence.
C4_NoneIffNoTierMatches ==
    DupDone =>
        /\ (result = None) <=>
               (SemanticHits = {} /\ EmbeddingHits = {} /\ LexicalHits = {})
        /\ (NCands = 0 => result = None)

\* two candidates, both put to a provider and rejected, an embedding was
\* obtained, and nothing matched
C4_NothingMatched ==
    /\ DupDone
    /\ NCands = 2
    /\ InBand(1) /\ InBand(2)
    /\ new_embedding # None
    /\ result = None

-----------------------------------------------------------------------------
(* C5 *)

\* C5: a candidate the semantic pass judges the same idea is returned
\* immediately: it is the last candidate judged, and no embedding is requested.
C5_SemanticMatchReturnsAtOnce ==
    op = "check_duplicate" =>
        \A k \in 1..Len(judged) :
            judged[k].verdict =>
                /\ pc = "done"
                /\ k = Len(judged)
                /\ result = Cand(k)
                /\ embed_calls = 0
                /\ new_embedding = None

\* the first of two candidates, at ratio 95, is returned by the semantic pass;
\* the second is never judged
C5_ReturnedAtRatio95 ==
    /\ DupDone
    /\ NCands = 2
    /\ CandRatioAbove(1, 94) /\ CandRatioBelow(1, 96)
    /\ result = Cand(1)
    /\ Len(judged) = 1
    /\ embed_calls = 0

-----------------------------------------------------------------------------
(* C6 *)

\* C6: the embedding is requested at most once, and only after the semantic
\* pass rejected every candidate; when it is None the embedding tier is
\* skipped and the lexical pass decides over all candidates.
C6_EmbeddingAfterSemanticPass ==
    op = "check_duplicate" =>
        /\ embed_calls <= 1
        /\ embed_calls = 1 =>
               /\ Len(judged) = NCands
               /\ \A k \in 1..NCands : ~judged[k].verdict
        /\ (DupDone /\ embed_calls = 1 /\ new_embedding = None) =>
               /\ tier # "embedding"
               /\ result = IF LexicalHits = {} THEN None ELSE Cand(Least(LexicalHits))

\* the embedding was requested and is None; the first candidate has a stored
\* embedding and no lexical match, the second is returned by the lexical pass
C6_LexicalPassWithoutEmbedding ==
    /\ DupDone
    /\ embed_calls = 1
    /\ new_embedding = None
    /\ NCands = 2
    /\ Cand(1).embedding_vector = "[5, 3]"
    /\ result = Cand(2)

-----------------------------------------------------------------------------
(* C7 *)

\* C7: with no semantic match and an embedding for the new text, the first
\* candidate whose stored embedding has cosine similarity > 0.85 is returned;
\* candidates with no or an unusable stored embedding are passed over.
C7_FirstCloseEmbedding ==
    (DupDone /\ SemanticHits = {} /\ new_embedding # None /\ EmbeddingHits # {}) =>
        /\ result = Cand(Least(EmbeddingHits))
        /\ tier = "embedding"

\* the first candidate's stored embedding cannot be parsed, the second one's
\* is close: the second is returned
C7_UnparseableSkipped ==
    /\ DupDone
    /\ tier = "embedding"
    /\ NCands = 2
    /\ Cand(1).embedding_vector = "[1, 0"
    /\ result = Cand(2)

-----------------------------------------------------------------------------
(* C8 *)

\* C8: when neither the semantic nor the embedding pass matched, the first
\* candidate with lexical ratio > 85 is returned.
C8_FirstLexicalMatch ==
    (DupDone /\ SemanticHits = {} /\ EmbeddingHits = {} /\ LexicalHits # {}) =>
        /\ result = Cand(Least(LexicalHits))
        /\ tier = "lexical"

\* both candidates have ratio > 85 and were rejected by a provider; the
\* lexical pass returns the first
C8_FirstOfTwoLexicalMatches ==
    /\ DupDone
    /\ tier = "lexical"
    /\ LexicalHits = { 1, 2 }
    /\ result = Cand(1)

-----------------------------------------------------------------------------
(* C9 *)

GenerationOps == { "categorize", "summarize", "analyze_sentiment" }

\* the rows appended to the log since the operation was entered
Appended == SubSeq(metrics, Len(log_at_call) + 1, Len(metrics))

RECURSIVE IsSubsequenceFrom(_, _, _, _)
IsSubsequenceFrom(a, b, i, j) ==
    IF i > Len(a) THEN TRUE
    ELSE IF j > Len(b) THEN FALSE
    ELSE IF a[i] = b[j] THEN IsSubsequenceFrom(a, b, i + 1, j + 1)
    ELSE IsSubsequenceFrom(a, b, i, j + 1)

\* C9 as claimed: every invocation of a provider-backed operation appends
\* exactly one record to the metrics log.
C9_ExactlyOneRecord ==
    /\ (pc = "done" /\ op \in GenerationOps \cup { "get_embedding" }) =>
           Len(Appended) = 1
    /\ op = "check_duplicate" =>
           \A k \in 1..Len(judged) : InBand(k) => Len(judged[k].emitted) = 1

\* the records of one provider cascade: one per provider attempt, and one
\* more for the fallback when no attempt was valid; only the last is a success
CascadeRecords(att, emi) ==
    /\ Len(emi) \in 1..3
    /\ \A j \in 1..Len(emi) : emi[j].success <=> (j = Len(emi))
    /\ \A j \in 1..(Len(emi) - 1) : emi[j].provider # "fallback"
    /\ Len(att) = Cardinality({ j \in 1..Len(emi) : emi[j].provider # "fallback" })

\* C9 as amended: a cascade operation hands the recorder one record per
\* provider attempt plus one for the fallback when no attempt was valid (one
\* to three records, the last one the only success); get_embedding hands over
\* one record when the API key is set and none otherwise; the log receives
\* those records in order, less the ones whose write failed.
C9_OneRecordPerAttemptAndFallback ==
    /\ (pc = "done" /\ op \in GenerationOps) => CascadeRecords(attempts, emitted)
    /\ (pc = "done" /\ op = "get_embedding") =>
           Len(emitted) = IF GEMINI_API_KEY THEN 1 ELSE 0
    /\ op = "check_duplicate" =>
           \A k \in 1..Len(judged) :
               InBand(k) => CascadeRecords(judged[k].attempts, judged[k].emitted)
    /\ pc = "done" =>
           /\ Len(Appended) <= Len(emitted)
           /\ IsSubsequenceFrom(Appended, emitted, 1, 1)

\* categorize tried both providers, both failed, and the fallback answered:
\* three records, all of them written
C9_ThreeRecordsForOneCall ==
    /\ pc = "done"
    /\ op = "categorize"
    /\ Len(attempts) = 2
    /\ Len(emitted) = 3
    /\ Appended = emitted
    /\ emitted[3].provider = "fallback"

-----------------------------------------------------------------------------
(* C10 *)

\* the records of provider attempts among emi
ProviderRecords(emi) == SelectSeq(emi, LAMBDA r : r.provider # "fallback")

OperationKind ==
    CASE op = "categorize" -> "categorize"
      [] op = "summarize" -> "summarize"
      [] op = "analyze_sentiment" -> "sentiment"
      [] OTHER -> "none"

\* C10: every provider attempt hands the recorder exactly one record with the
\* operation kind and the provider's name; its success flag is true iff the
\* operation returned the value that attempt produced.
C10_OneRecordPerAttempt ==
    /\ op \in GenerationOps =>
           LET recs == ProviderRecords(emitted) IN
           /\ Len(recs) = Len(attempts)
           /\ \A j \in 1..Len(recs) :
                  /\ recs[j].operation = OperationKind
                  /\ recs[j].provider = attempts[j].provider
                  /\ recs[j].success <=>
                         /\ pc = "done"
                         /\ j = Len(attempts)
                         /\ Len(emitted) = Len(attempts)
                         /\ attempts[j].kind = "reply"
                         /\ result = Str(Strip(attempts[j].content))
    /\ op = "check_duplicate" =>
           \A k \in 1..Len(judged) :
               LET att == judged[k].attempts
                   recs == ProviderRecords(judged[k].emitted) IN
               /\ Len(recs) = Len(att)
               /\ \A j \in 1..Len(recs) :
                      /\ recs[j].operation = "duplicate_check"
                      /\ recs[j].provider = att[j].provider
                      /\ recs[j].success <=>
                             /\ j = Len(att)
                             /\ Len(judged[k].emitted) = Len(att)
                             /\ ValidAnswer(att[j])
                             /\ judged[k].verdict = (Upper(Strip(att[j].content)) = "YES")
    /\ (pc = "done" /\ GEMINI_API_KEY /\ (op = "get_embedding" \/ embed_calls = 1)) =>
           LET r == emitted[Len(emitted)] IN
           /\ Len(emitted) >= 1
           /\ r.operation = "embedding"
           /\ r.provider = "gemini"
           /\ r.success <=> new_embedding # None
           /\ op = "get_embedding" => (Len(emitted) = 1 /\ result = new_embedding)

\* categorize: openrouter answered with a non-200 status, then groq answered
\* with a valid category; two records, the second a success under groq's name
C10_FailureThenSuccess ==
    /\ pc = "done"
    /\ op = "categorize"
    /\ Len(attempts) = 2
    /\ attempts[1].kind = "http"
    /\ emitted[1].provider = "openrouter" /\ ~emitted[1].success
    /\ emitted[2].provider = "groq" /\ emitted[2].success
    /\ Len(emitted) = 2
    /\ result = Str("Water")

-----------------------------------------------------------------------------
(* C11 *)

\* the cascade that left attempts att and records emi, over the provider
\* list shf, took the fallback only after trying every listed provider in
\* vain, and recorded it once, as a success with latency 0
FallbackAfterAll(att, shf, emi) ==
    \A j \in 1..Len(emi) :
        emi[j].provider = "fallback" =>
            /\ j = Len(emi)
            /\ Len(att) = Len(shf)
            /\ { att[a].provider : a \in 1..Len(att) } = Range(shf)
            /\ \A a \in 1..Len(att) : ~emi[a].success /\ emi[a].provider = att[a].provider
            /\ j = Len(att) + 1
            /\ emi[j].success
            /\ emi[j].response_time = "0.0"

\* the cascade ended without a valid answer, so the fallback was recorded
FallbackWhenNoneValid(att, emi) ==
    (att = <<>> \/ ~emi[Len(att)].success) =>
        /\ Len(emi) = Len(att) + 1
        /\ emi[Len(emi)].provider = "fallback"

\* C11: the local fallback is taken only after every available provider was
\* attempted and failed or answered invalidly (or none was available), and it
\* emits exactly one record: provider fallback, success true, latency 0.
C11_FallbackAfterEveryProvider ==
    /\ op \in GenerationOps =>
           /\ FallbackAfterAll(attempts, shuffled, emitted)
           /\ pc = "done" => FallbackWhenNoneValid(attempts, emitted)
    /\ op = "check_duplicate" =>
           \A k \in 1..Len(judged) :
               /\ FallbackAfterAll(judged[k].attempts, judged[k].shuffled, judged[k].emitted)
               /\ InBand(k) => FallbackWhenNoneValid(judged[k].attempts, judged[k].emitted)

\* analyze_sentiment: both providers were available, one answered with an
\* invalid sentiment and the other raised; the third record is the fallback's
C11_FallbackAfterTwoFailures ==
    /\ pc = "done"
    /\ op = "analyze_sentiment"
    /\ Len(shuffled) = 2
    /\ Len(attempts) = 2
    /\ attempts[1].kind = "reply"
    /\ attempts[2].kind = "exception"
    /\ emitted[3] = [operation |-> "sentiment", provider |-> "fallback", success |-> TRUE,
                     response_time |-> "0.0", error_message |-> "None"]
    /\ result = Str("Neutral")

-----------------------------------------------------------------------------
(* C12 *)

\* the value a finished cascade returns, as decided by the providers' answers
\* alone: the last attempt's value when it was valid, the fallback's otherwise
ValueOfAnswers(o, att, sugg_text) ==
    IF att # <<>> /\ att[Len(att)].kind = "reply"
                  /\ ReplyValid(OperationOf(o), att[Len(att)].content)
    THEN ReplyValue(OperationOf(o), att[Len(att)].content)
    ELSE FallbackValue(o, text, sugg_text)

-----------------------------------------------------------------------------
(* C13 *)

\* C13: every public operation is total: whatever the providers do, it
\* returns, and what it returns is in its domain: one of the seven categories,
\* one of the three sentiments, a string, a candidate or None.  No operation
\* raises and none is ever stuck before its return.
C13_OperationsAreTotal ==
    /\ result # Raised
    /\ pc \notin { "idle", "done" } => ENABLED Next
    /\ pc = "done" =>
           CASE op = "categorize" ->
                    result \in { Str(c) : c \in { "Roads", "Power", "Water", "Security",
                                                  "Health", "Education", "Other" } }
             [] op = "analyze_sentiment" ->
                    result \in { Str(c) : c \in { "Positive", "Neutral", "Negative" } }
             [] op = "summarize" -> DOMAIN result \in { { "str" }, { "chars" } }
             [] op = "check_duplicate" ->
                    result = None \/ result \in Range(existing_suggestions)
             [] op = "get_embedding" ->
                    result = None \/ DOMAIN result = { "list" }

\* categorize: one provider answered "roads", which is no category, the other
\* raised, and no keyword matches the text: the operation returns Other
C13_OtherAfterBadAnswers ==
    /\ pc = "done"
    /\ op = "categorize"
    /\ Len(attempts) = 2
    /\ \E a \in 1..2 : attempts[a].content = "roads"
    /\ \E a \in 1..2 : attempts[a].kind = "exception"
    /\ result = Str("Other")

-----------------------------------------------------------------------------
(* C15 *)

\* the answer of attempt a has the shape operation o expects
ValidShape(o, a) ==
    /\ a.kind = "reply"
    /\ CASE o = "categorize" ->
                Strip(a.content) \in { "Roads", "Power", "Water", "Security",
                                       "Health", "Education", "Other" }
         [] o = "analyze_sentiment" ->
                Strip(a.content) \in { "Positive", "Neutral", "Negative" }
         [] o = "check_duplicate" -> Upper(Strip(a.content)) \in { "YES", "NO" }
         [] OTHER -> TRUE

\* a cascade of operation o over the shuffled list shf: attempts follow the
\* list, an invalid answer is recorded as a failure of its own kind, only the
\* last attempt can be valid, and a finished cascade either ended on a valid
\* answer or tried the whole list
CascadeInOrder(o, att, shf, emi, finished) ==
    /\ Len(att) <= Len(shf)
    /\ \A a \in 1..Len(att) : att[a].provider = shf[a]
    /\ \A a \in 1..Len(att) :
           (att[a].kind = "reply" /\ ~ValidShape(o, att[a])) =>
               /\ ~emi[a].success
               /\ emi[a].error_message \in
                      { "Invalid category", "Invalid sentiment", "Invalid answer" }
               /\ \A b \in 1..Len(att) :
                      att[b].kind # "reply" => emi[b].error_message # emi[a].error_message
    /\ \A a \in 1..(Len(att) - 1) : ~ValidShape(o, att[a])
    /\ finished =>
           \/ Len(att) = Len(shf) /\ \A a \in 1..Len(att) : ~ValidShape(o, att[a])
           \/ Len(att) > 0 /\ ValidShape(o, att[Len(att)]) /\ emi[Len(att)].success
                           /\ Len(emi) = Len(att)

\* C15: providers are attempted one at a time in the shuffled order; an
\* invalid-shaped answer is recorded as a failure distinct from a transport
\* error and the next provider is attempted; the first valid answer is
\* returned and ends the attempts.
C15_CascadeInShuffledOrder ==
    /\ op \in { "categorize", "analyze_sentiment" } =>
           /\ CascadeInOrder(op, attempts, shuffled, emitted, pc = "done")
           /\ (pc = "done" /\ attempts # <<>> /\ ValidShape(op, attempts[Len(attempts)])) =>
                  result = Str(Strip(attempts[Len(attempts)].content))
    /\ op = "check_duplicate" =>
           /\ \A k \in 1..Len(judged) :
                  LET j == judged[k] IN
                  /\ CascadeInOrder(op, j.attempts, j.shuffled, j.emitted, InBand(k))
                  /\ (j.attempts # <<>> /\ ValidShape(op, j.attempts[Len(j.attempts)])) =>
                         j.verdict = (Upper(Strip(j.attempts[Len(j.attempts)].content)) = "YES")
           /\ pc = "loop" =>
                  CascadeInOrder(op, attempts, shuffled,
                                 SubSeq(emitted, mark.emitted + 1, Len(emitted)), FALSE)

\* analyze_sentiment: the first provider answered "negative", recorded as an
\* invalid sentiment; the second answered " Positive", which was returned
C15_InvalidThenValid ==
    /\ pc = "done"
    /\ op = "analyze_sentiment"
    /\ Len(attempts) = 2
    /\ attempts[1].content = "negative"
    /\ emitted[1].error_message = "Invalid sentiment"
    /\ ~emitted[1].success
    /\ attempts[2].content = " Positive"
    /\ result = Str("Positive")

-----------------------------------------------------------------------------
(* C16 *)

\* no provider occurs twice among the attempts att
EachProviderOnce(att) ==
    /\ Len(att) <= 2
    /\ \A a, b \in 1..Len(att) : att[a].provider = att[b].provider => a = b

\* C16: within one invocation each provider is attempted at most once, so
\* there are at most two attempts; a failed attempt is not retried but moves
\* on to the next provider or the fallback, and every invocation terminates.
C16_NoRetryAndTermination ==
    /\ [](/\ EachProviderOnce(attempts)
          /\ \A k \in 1..Len(judged) : EachProviderOnce(judged[k].attempts)
          /\ (pc = "loop" /\ attempts # <<>>) =>
                 Len(providers) = Len(shuffled) - Len(attempts))
    /\ <>(pc = "done")

\* summarize: both providers failed, each was asked once, and the operation
\* ended with the fallback
C16_TwoFailuresThenFallback ==
    /\ pc = "done"
    /\ op = "summarize"
    /\ Len(attempts) = 2
    /\ attempts[1].provider # attempts[2].provider
    /\ attempts[1].kind # "reply" /\ attempts[2].kind # "reply"
    /\ emitted[3].provider = "fallback"

-----------------------------------------------------------------------------
(* C17 *)

\* the providers of generation attempts att were on the list shf
OnlyListed(att, shf) ==
    \A a \in 1..Len(att) :
        /\ att[a].provider \in Range(shf)
        /\ att[a].provider # "gemini"

\* C17: the liveness probe runs before the provider list is built; a provider
\* is attempted only if the availability map marked it available when the
\* list was built; gemini is never attempted for generation and is the only
\* provider of embeddings, whose failure is returned as None.
C17_ProbeThenAvailableProviders ==
    /\ pc \in { "build", "loop" } => probe_calls = mark.probes + 1
    /\ (pc = "loop" \/ (pc = "done" /\ op \in GenerationOps)) =>
           /\ probe_calls = mark.probes + 1
           /\ Range(shuffled) = { p \in { "groq", "openrouter" } : ai_service_status[p] }
           /\ OnlyListed(attempts, shuffled)
    /\ \A k \in 1..Len(judged) :
           /\ OnlyListed(judged[k].attempts, judged[k].shuffled)
           /\ judged[k].attempts # <<>> => judged[k].probes = 1
    /\ \A j \in 1..Len(emitted) :
           (emitted[j].operation = "embedding") <=> (emitted[j].provider = "gemini")
    /\ (pc = "done" /\ embed_calls = 1 /\ emitted # <<>>
          /\ ~emitted[Len(emitted)].success) => new_embedding = None
    /\ (pc = "done" /\ op = "get_embedding" /\ emitted # <<>>
          /\ ~emitted[Len(emitted)].success) => result = None

\* categorize with all three services available: groq and openrouter were
\* both attempted, gemini was not
C17_GeminiLeftOut ==
    /\ pc = "done"
    /\ op = "categorize"
    /\ ai_service_status = [s \in Services |-> TRUE]
    /\ Len(attempts) = 2
    /\ probe_calls = 1

-----------------------------------------------------------------------------
(* C18 *)

\* the operation ended on its local fallback
FellBack == pc = "done" /\ emitted # <<>> /\ emitted[Len(emitted)].provider = "fallback"

\* the category of the first keyword rule (road; power, electric; water;
\* security, police; health, hospital; education, school) that matches the
\* lower-cased text as a substring, Other when none does
ExpectedCategory(t) ==
    CASE t = "Fix Main Road lights" -> "Roads"
      [] t = "Mow Pine Park lights" -> "Other"
      [] t = "SIX MAIN ROAD LIGHTS" -> "Roads"
      [] t = "Fix Mill Road lights" -> "Roads"
      [] t = "Fix Mall Road lights" -> "Roads"
      [] t = "Fix power on Main Rd" -> "Power"
      [] t = "Mow Pine Walk rights" -> "Other"
      [] t = "There is a big pothole on Main Road" -> "Roads"
      [] t = "Water and POWER at the school" -> "Power"
      [] t = "Police post at the hospital" -> "Security"
      [] t = "Broadband Education" -> "Roads"
      [] t = "No Electric light" -> "Power"
      [] t = "Clean water for all" -> "Water"
      [] t = "Security and health" -> "Security"
      [] t = "Health centre school" -> "Health"
      [] t = "New school" -> "Education"
      [] t = "a b c d e f g h i j k l m n o p q r s t u v w x y z A B C D E" -> "Other"
      [] t = " a  b\tc w w w w w w w w w w w w w w w w w w w w w w w w w w w \n" -> "Other"

\* C18: when no provider yields a valid response, categorize returns the
\* category of the first matching keyword rule in the fixed order, Other when
\* none matches, and analyze_sentiment returns Neutral.
C18_KeywordFallback ==
    /\ (FellBack /\ op = "categorize") => result = Str(ExpectedCategory(text))
    /\ (FellBack /\ op = "analyze_sentiment") => result = Str("Neutral")

\* "Water and POWER at the school" matches three rules; with no provider
\* available the fallback returns that of the first one, Power
C18_FirstRuleWins ==
    /\ FellBack
    /\ op = "categorize"
    /\ text = "Water and POWER at the school"
    /\ attempts = <<>>
    /\ result = Str("Power")

-----------------------------------------------------------------------------
(* C19 *)

\* the first 30 whitespace-delimited tokens of the text joined by single
\* spaces, with "..." appended iff the text has more than 30 tokens
ExpectedSummary(t) ==
    CASE t = "Fix Main Road lights" ->
             <<"F","i","x"," ","M","a","i","n"," ","R","o","a","d"," ","l","i","g","h","t","s">>
      [] t = "Mow Pine Park lights" ->
             <<"M","o","w"," ","P","i","n","e"," ","P","a","r","k"," ","l","i","g","h","t","s">>
      [] t = "SIX MAIN ROAD LIGHTS" ->
             <<"S","I","X"," ","M","A","I","N"," ","R","O","A","D"," ","L","I","G","H","T","S">>
      [] t = "Fix Mill Road lights" ->
             <<"F","i","x"," ","M","i","l","l"," ","R","o","a","d"," ","l","i","g","h","t","s">>
      [] t = "Fix Mall Road lights" ->
             <<"F","i","x"," ","M","a","l","l"," ","R","o","a","d"," ","l","i","g","h","t","s">>
      [] t = "Fix power on Main Rd" ->
             <<"F","i","x"," ","p","o","w","e","r"," ","o","n"," ","M","a","i","n"," ","R","d">>
      [] t = "Mow Pine Walk rights" ->
             <<"M","o","w"," ","P","i","n","e"," ","W","a","l","k"," ","r","i","g","h","t","s">>
      [] t = "There is a big pothole on Main Road" ->
             <<"T","h","e","r","e"," ","i","s"," ","a"," ","b","i","g"," ","p","o","t","h","o","l","e"," ","o","n"," ","M","a","i","n"," ","R","o","a","d">>
      [] t = "Water and POWER at the school" ->
             <<"W","a","t","e","r"," ","a","n","d"," ","P","O","W","E","R"," ","a","t"," ","t","h","e"," ","s","c","h","o","o","l">>
      [] t = "Police post at the hospital" ->
             <<"P","o","l","i","c","e"," ","p","o","s","t"," ","a","t"," ","t","h","e"," ","h","o","s","p","i","t","a","l">>
      [] t = "Broadband Education" ->
             <<"B","r","o","a","d","b","a","n","d"," ","E","d","u","c","a","t","i","o","n">>
      [] t = "No Electric light" ->
             <<"N","o"," ","E","l","e","c","t","r","i","c"," ","l","i","g","h","t">>
      [] t = "Clean water for all" ->
             <<"C","l","e","a","n"," ","w","a","t","e","r"," ","f","o","r"," ","a","l","l">>
      [] t = "Security and health" ->
             <<"S","e","c","u","r","i","t","y"," ","a","n","d"," ","h","e","a","l","t","h">>
      [] t = "Health centre school" ->
             <<"H","e","a","l","t","h"," ","c","e","n","t","r","e"," ","s","c","h","o","o","l">>
      [] t = "New school" ->
             <<"N","e","w"," ","s","c","h","o","o","l">>
      [] t = "a b c d e f g h i j k l m n o p q r s t u v w x y z A B C D E" ->
             <<"a"," ","b"," ","c"," ","d"," ","e"," ","f"," ","g"," ","h"," ","i"," ","j"," ","k"," ","l"," ","m"," ","n"," ","o"," ","p"," ","q"," ","r"," ","s"," ","t"," ","u"," ","v"," ","w"," ","x"," ","y"," ","z"," ","A"," ","B"," ","C"," ","D",".",".",".">>
      [] t = " a  b\tc w w w w w w w w w w w w w w w w w w w w w w w w w w w \n" ->
             <<"a"," ","b"," ","c"," ","w"," ","w"," ","w"," ","w"," ","w"," ","w"," ","w"," ","w"," ","w"," ","w"," ","w"," ","w"," ","w"," ","w"," ","w"," ","w"," ","w"," ","w"," ","w"," ","w"," ","w"," ","w"," ","w"," ","w"," ","w"," ","w"," ","w">>

\* C19: when no provider yields a response, summarize returns the first 30
\* whitespace-delimited tokens joined by single spaces, followed by "..." iff
\* the text has more than 30 tokens.
C19_TruncatedSummary ==
    (FellBack /\ op = "summarize") => result = [chars |-> ExpectedSummary(text)]

\* a text of 31 tokens: the fallback summary ends with the 30th token and
\* the ellipsis
C19_EllipsisAfter30Tokens ==
    /\ FellBack
    /\ op = "summarize"
    /\ text = "a b c d e f g h i j k l m n o p q r s t u v w x y z A B C D E"
    /\ Len(result.chars) = 62
    /\ SubSeq(result.chars, 59, 62) = <<"D", ".", ".", ".">>

-----------------------------------------------------------------------------
(* C20 *)

\* C20: the metrics log is append-only: the records that were there when an
\* operation was called stay in place unchanged, and every step either leaves
\* the log as it is or appends the record of the attempt just made, so new
\* records are in the order of the attempts.
C20_LogIsAppendOnly ==
    /\ [](/\ Len(metrics) >= Len(log_at_call)
          /\ SubSeq(metrics, 1, Len(log_at_call)) = log_at_call
          /\ IsSubsequenceFrom(Appended, emitted, 1, 1))
    /\ [][\/ metrics' = metrics
          \/ /\ Len(emitted') = Len(emitted) + 1
             /\ metrics' = Append(metrics, emitted'[Len(emitted')])]_vars

\* an invocation found two records in the log and left them in place,
\* followed by the three records of its own attempts and fallback, in order
C20_ThreeAppendedAfterTwo ==
    /\ pc = "done"
    /\ Len(log_at_call) = 2
    /\ Len(emitted) = 3
    /\ metrics = log_at_call \o emitted

-----------------------------------------------------------------------------
(* C14 *)

\* the second of two categorize calls has returned
SecondDone == previous.called /\ pc = "done"

\* C14 as claimed: two calls of categorize with the same text and the same
\* provider responses return the same category.
C14_SameCategoryTwice ==
    SecondDone => result = previous.result

\* the first provider asked in the call with attempts att answered with a
\* category
FirstAnswerValid(att) == att # <<>> /\ ValidShape("categorize", att[1])

\* C14 as amended: the two calls return the same category when the providers
\* are attempted in the same order; they return different categories only
\* when the shuffles differ and the provider asked first in each call answers
\* with a valid category, the two categories being different.
C14_SameCategoryInSameOrder ==
    SecondDone =>
        /\ ai_service_status = previous.status
        /\ shuffled = previous.shuffled =>
               (result = previous.result /\ attempts = previous.attempts)
        /\ result # previous.result =>
               /\ Len(shuffled) = 2
               /\ shuffled # previous.shuffled
               /\ FirstAnswerValid(attempts)
               /\ FirstAnswerValid(previous.attempts)
               /\ attempts[1].provider # previous.attempts[1].provider
               /\ result = Str(Strip(attempts[1].content))
               /\ previous.result = Str(Strip(previous.attempts[1].content))

\* the first call asked groq first and returned its Roads; the second call,
\* same text and same answers, asked openrouter first and returned its Water
C14_OtherOrderOtherCategory ==
    /\ SecondDone
    /\ previous.shuffled = <<"groq", "openrouter">>
    /\ shuffled = <<"openrouter", "groq">>
    /\ previous.result = Str("Roads")
    /\ result = Str("Water")

-----------------------------------------------------------------------------
(* C23 *)

\* candidate k was answered with a valid NO by the provider asked about it
AnsweredNo(k) ==
    /\ k <= Len(judged)
    /\ judged[k].attempts # <<>>
    /\ LET last == judged[k].attempts[Len(judged[k].attempts)]
       IN  /\ last.kind = "reply"
           /\ Upper(Strip(last.content)) = "NO"

\* C23: when some candidate has lexical ratio > 85 with the new text,
\* check_duplicate returns one of the candidates, whatever the probe, the
\* providers and the embedding call did; when neither the semantic nor the
\* embedding pass matched, it is the first candidate with ratio > 85, also
\* when a provider answered NO about that candidate.
C23_LexicalMatchAlwaysReported ==
    (DupDone /\ LexicalHits # {}) =>
        /\ result \in Range(existing_suggestions)
        /\ (SemanticHits = {} /\ EmbeddingHits = {}) =>
               /\ result = Cand(Least(LexicalHits))
               /\ tier = "lexical"

\* a provider answered NO about the pair at ratio 90, and the lexical pass
\* returned that candidate as the duplicate
C23_ReportedDespiteNo ==
    /\ DupDone
    /\ NCands >= 1
    /\ AnsweredNo(1)
    /\ CandRatioAbove(1, 85)
    /\ ~CandRatioAbove(1, 90)
    /\ tier = "lexical"
    /\ result = Cand(1)

-----------------------------------------------------------------------------
(* C21 *)

\* C21 as claimed: the provider list a run builds is decided by that run's
\* own probe, whatever the steps of other runs interleaved with it: it is an
\* ordering of the providers its own test calls found available.
C21_ProviderListIsolated ==
    \A t \in DOMAIN runs :
        runs[t].pc = "built" =>
            runs[t].providers \in Shuffles(AvailableProviders(runs[t].seen))

-----------------------------------------------------------------------------
(* The routes of src/app/routes.py and src/app/admin_routes.py.  A table is *)
(* the set of its rows; a request is served by one requester: a visitor     *)
(* who is not logged in, a registered user, or the administrator.           *)

Requesters == { "anonymous", "uma", "ada" }

\* current_user.is_authenticated
is_authenticated(who) == who # "anonymous"
\* the is_admin column of the user row
is_admin(who) == who = "ada"

\* flask_login's decorator lets the view run
login_required(who) == is_authenticated(who)
\* the decorator of admin_routes.py lets the view run
admin_required(who) == login_required(who) /\ is_admin(who)

\* where a requester the decorators stop is sent
Refusal(who) == IF is_authenticated(who) THEN "denied" ELSE "login"

Ids(table) == { r.id : r \in table }
Row(table, id) == CHOOSE r \in table : r.id = id
\* query.get_or_404(id) finds a row
Found(table, id) == id \in Ids(table)
\* the primary key the database gives a new row
NextId(table) == IF table = {} THEN 1 ELSE 1 + (CHOOSE i \in Ids(table) : \A j \in Ids(table) : j <= i)
Insert(table, row) == table \cup { row }
Delete(table, id) == { r \in table : r.id # id }
Update(table, row) == Delete(table, row.id) \cup { row }

RowIds == 1..MaxRows
\* ids a request may name: the seed rows, the submitted ones
SuggestionIds == 1..(3 + MaxSubmitted)
Statuses == { "pending", "approved", "rejected" }
AreaNames == { "Ila Central", "Oke Ola" }
Titles == { "Notice", "Update" }

\* the response of a request that has called no AI operation
Respond(route, who, id, response) ==
    served' = [route |-> route, who |-> who, id |-> id, response |-> response,
               before |-> {}, form |-> NoForm, n |-> served.n]

\* no route is in the middle of its AI calls
Free == request = NoRequest

\* suggestions an anonymous visitor submitted; the administrator approved
\* one.  A column the AI operations fill holds the str they returned
SeedSuggestions ==
    { [id |-> 1, text |-> "SIX MAIN ROAD LIGHTS", category |-> Str("Roads"),
       summary |-> Str("SIX MAIN ROAD LIGHTS"), sentiment |-> Str("Neutral"),
       location |-> "Ila Central", status |-> "pending", upvotes |-> 0, downvotes |-> 0,
       embedding_vector |-> NULL, author_id |-> NULL, can_edit |-> TRUE],
      [id |-> 2, text |-> "Fix Mill Road lights", category |-> Str("Roads"),
       summary |-> Str("Fix Mill Road lights"), sentiment |-> Str("Negative"),
       location |-> "Ila Central", status |-> "approved", upvotes |-> 0, downvotes |-> 0,
       embedding_vector |-> NULL, author_id |-> NULL, can_edit |-> FALSE] }

\* a suggestion a registered user submitted with the anonymous box ticked
AuthoredSuggestion ==
    [id |-> 3, text |-> "Mow Pine Walk rights", category |-> Str("Other"),
     summary |-> Str("Mow Pine Walk rights"), sentiment |-> Str("Neutral"),
     location |-> "Ila Central", status |-> "pending", upvotes |-> 0, downvotes |-> 0,
     embedding_vector |-> "[1, 0]", author_id |-> "uma", can_edit |-> TRUE]

\* ids a request names: those of the rows and one that is not there
Named(table) == Ids(table) \cup { NextId(table) }

\* a process that serves the site without provider keys
InitSite ==
    /\ GEMINI_API_KEY = FALSE
    /\ GROQ_API_KEY = FALSE
    /\ OPENROUTER_API_KEY = FALSE
    /\ ai_service_status = [s \in Services |-> FALSE]
    /\ metrics = <<>>
    /\ CoreIdle
    /\ runs = <<>>
    /\ suggestion = SeedSuggestions
    /\ vote = {}
    /\ community_area = {}
    /\ announcement = {}
    /\ landmark_image = {}
    /\ request = NoRequest
    /\ trace = <<>>
    /\ served = NoLast
    /\ ballots = <<>>

\* what a route that serves its request in one step leaves alone
aside == <<keys, ai_service_status, core, runs, request, trace, ballots>>

\* POST /admin/suggestion/<id>/status/<status>
change_status(who, id, status) ==
    /\ Free
    /\ IF ~admin_required(who)
       THEN Respond("change_status", who, id, Refusal(who)) /\ UNCHANGED suggestion
       ELSE IF ~Found(suggestion, id)
       THEN Respond("change_status", who, id, "404") /\ UNCHANGED suggestion
       ELSE LET sugg == Row(suggestion, id)
                old_status == sugg.status
                can_edit == IF status = "approved" /\ old_status # "approved"
                            THEN FALSE ELSE sugg.can_edit
            IN /\ suggestion' = Update(suggestion, [sugg EXCEPT !.status = status,
                                                                !.can_edit = can_edit])
               /\ Respond("change_status", who, id, "done")
    /\ UNCHANGED <<aside, vote, community_area, announcement, landmark_image>>

\* POST /admin/suggestion/<id>/merge/<target_id>: the votes of the rows and
\* the comments stay in their tables, only the suggestion row is deleted
merge_suggestions(who, id, target_id) ==
    /\ Free
    /\ IF ~admin_required(who)
       THEN Respond("merge_suggestions", who, id, Refusal(who)) /\ UNCHANGED suggestion
       ELSE IF ~Found(suggestion, id) \/ ~Found(suggestion, target_id)
       THEN Respond("merge_suggestions", who, id, "404") /\ UNCHANGED suggestion
       ELSE LET sugg == Row(suggestion, id)
                target == Row(suggestion, target_id)
                merged == [target EXCEPT !.upvotes = target.upvotes + sugg.upvotes,
                                         !.downvotes = target.downvotes + sugg.downvotes]
            IN /\ suggestion' = Delete(Update(suggestion, merged), id)
               /\ Respond("merge_suggestions", who, id, "done")
    /\ UNCHANGED <<aside, vote, community_area, announcement, landmark_image>>

\* POST /admin/announcement/new
new_announcement(who, title) ==
    /\ Free
    /\ NextId(announcement) <= MaxRows
    /\ IF ~admin_required(who)
       THEN Respond("new_announcement", who, 0, Refusal(who)) /\ UNCHANGED announcement
       ELSE /\ announcement' = Insert(announcement, [id |-> NextId(announcement), title |-> title])
            /\ Respond("new_announcement", who, 0, "done")
    /\ UNCHANGED <<aside, suggestion, vote, community_area, landmark_image>>

\* POST /admin/announcement/<ann_id>/edit
edit_announcement(who, ann_id, title) ==
    /\ Free
    /\ IF ~admin_required(who)
       THEN Respond("edit_announcement", who, ann_id, Refusal(who)) /\ UNCHANGED announcement
       ELSE IF ~Found(announcement, ann_id)
       THEN Respond("edit_announcement", who, ann_id, "404") /\ UNCHANGED announcement
       ELSE /\ announcement' = Update(announcement, [id |-> ann_id, title |-> title])
            /\ Respond("edit_announcement", who, ann_id, "done")
    /\ UNCHANGED <<aside, suggestion, vote, community_area, landmark_image>>

\* POST /admin/announcement/<ann_id>/delete
delete_announcement(who, ann_id) ==
    /\ Free
    /\ IF ~admin_required(who)
       THEN Respond("delete_announcement", who, ann_id, Refusal(who)) /\ UNCHANGED announcement
       ELSE IF ~Found(announcement, ann_id)
       THEN Respond("delete_announcement", who, ann_id, "404") /\ UNCHANGED announcement
       ELSE /\ announcement' = Delete(announcement, ann_id)
            /\ Respond("delete_announcement", who, ann_id, "done")
    /\ UNCHANGED <<aside, suggestion, vote, community_area, landmark_image>>

\* POST /admin/landmark/new with an image file
new_landmark(who, title) ==
    /\ Free
    /\ NextId(landmark_image) <= MaxRows
    /\ IF ~admin_required(who)
       THEN Respond("new_landmark", who, 0, Refusal(who)) /\ UNCHANGED landmark_image
       ELSE /\ landmark_image' = Insert(landmark_image,
                                        [id |-> NextId(landmark_image), title |-> title])
            /\ Respond("new_landmark", who, 0, "done")
    /\ UNCHANGED <<aside, suggestion, vote, community_area, announcement>>

\* POST /admin/landmark/<landmark_id>/delete
delete_landmark(who, landmark_id) ==
    /\ Free
    /\ IF ~admin_required(who)
       THEN Respond("delete_landmark", who, landmark_id, Refusal(who))
            /\ UNCHANGED landmark_image
       ELSE IF ~Found(landmark_image, landmark_id)
       THEN Respond("delete_landmark", who, landmark_id, "404") /\ UNCHANGED landmark_image
       ELSE /\ landmark_image' = Delete(landmark_image, landmark_id)
            /\ Respond("delete_landmark", who, landmark_id, "done")
    /\ UNCHANGED <<aside, suggestion, vote, community_area, announcement>>

\* POST /admin/areas/new: the view is decorated with login_required only
new_area(who, name) ==
    /\ Free
    /\ NextId(community_area) <= MaxRows
    /\ IF ~login_required(who)
       THEN Respond("new_area", who, 0, Refusal(who)) /\ UNCHANGED community_area
       ELSE IF \E existing \in community_area : existing.name = name
       THEN Respond("new_area", who, 0, "exists") /\ UNCHANGED community_area
       ELSE /\ community_area' = Insert(community_area,
                [id |-> NextId(community_area), name |-> name, is_active |-> TRUE])
            /\ Respond("new_area", who, 0, "done")
    /\ UNCHANGED <<aside, suggestion, vote, announcement, landmark_image>>

\* POST /admin/areas/<area_id>/edit
edit_area(who, area_id, name, is_active) ==
    /\ Free
    /\ IF ~admin_required(who)
       THEN Respond("edit_area", who, area_id, Refusal(who)) /\ UNCHANGED community_area
       ELSE IF ~Found(community_area, area_id)
       THEN Respond("edit_area", who, area_id, "404") /\ UNCHANGED community_area
       ELSE IF \E existing \in community_area : existing.name = name /\ existing.id # area_id
       THEN Respond("edit_area", who, area_id, "exists") /\ UNCHANGED community_area
       ELSE /\ community_area' = Update(community_area,
                [id |-> area_id, name |-> name, is_active |-> is_active])
            /\ Respond("edit_area", who, area_id, "done")
    /\ UNCHANGED <<aside, suggestion, vote, announcement, landmark_image>>

\* POST /admin/areas/<area_id>/toggle
toggle_area(who, area_id) ==
    /\ Free
    /\ IF ~admin_required(who)
       THEN Respond("toggle_area", who, area_id, Refusal(who)) /\ UNCHANGED community_area
       ELSE IF ~Found(community_area, area_id)
       THEN Respond("toggle_area", who, area_id, "404") /\ UNCHANGED community_area
       ELSE LET area == Row(community_area, area_id)
            IN /\ community_area' = Update(community_area,
                                           [area EXCEPT !.is_active = ~area.is_active])
               /\ Respond("toggle_area", who, area_id, "done")
    /\ UNCHANGED <<aside, suggestion, vote, announcement, landmark_image>>

\* POST /admin/areas/<area_id>/delete: refused while a suggestion's location
\* starts with the name of the area
delete_area(who, area_id) ==
    /\ Free
    /\ IF ~admin_required(who)
       THEN Respond("delete_area", who, area_id, Refusal(who)) /\ UNCHANGED community_area
       ELSE IF ~Found(community_area, area_id)
       THEN Respond("delete_area", who, area_id, "404") /\ UNCHANGED community_area
       ELSE IF \E s \in suggestion : s.location = Row(community_area, area_id).name
       THEN Respond("delete_area", who, area_id, "in use") /\ UNCHANGED community_area
       ELSE /\ community_area' = Delete(community_area, area_id)
            /\ Respond("delete_area", who, area_id, "done")
    /\ UNCHANGED <<aside, suggestion, vote, announcement, landmark_image>>

\* hasattr(current_user, 'is_admin'): every row of the user table has the
\* column, whatever its value; flask_login's anonymous user has no such attribute
hasattr_is_admin(who) == is_authenticated(who)

\* GET /suggestion/<sugg_id>
suggestion_detail(who, sugg_id) ==
    /\ Free
    /\ IF ~Found(suggestion, sugg_id)
       THEN Respond("suggestion_detail", who, sugg_id, "404")
       ELSE IF /\ Row(suggestion, sugg_id).status # "approved"
               /\ (~is_authenticated(who) \/ ~hasattr_is_admin(who))
       THEN Respond("suggestion_detail", who, sugg_id, "redirect")
       ELSE Respond("suggestion_detail", who, sugg_id, "shown")
    /\ UNCHANGED <<aside, suggestion, vote, community_area, announcement, landmark_image>>

NextSite ==
    \/ \E who \in Requesters, id \in Named(suggestion), status \in Statuses :
           change_status(who, id, status)
    \/ \E who \in Requesters, id, target_id \in Named(suggestion) : merge_suggestions(who, id, target_id)
    \/ \E who \in Requesters, title \in Titles : new_announcement(who, title)
    \/ \E who \in Requesters, id \in RowIds, title \in Titles : edit_announcement(who, id, title)
    \/ \E who \in Requesters, id \in RowIds : delete_announcement(who, id)
    \/ \E who \in Requesters : new_landmark(who, "Clock tower")
    \/ \E who \in Requesters, id \in RowIds : delete_landmark(who, id)
    \/ \E who \in Requesters, name \in AreaNames : new_area(who, name)
    \/ \E who \in Requesters, id \in RowIds, name \in AreaNames, is_active \in BOOLEAN :
           edit_area(who, id, name, is_active)
    \/ \E who \in Requesters, id \in RowIds : toggle_area(who, id)
    \/ \E who \in Requesters, id \in RowIds : delete_area(who, id)
    \/ \E who \in Requesters, id \in Named(suggestion) : suggestion_detail(who, id)

SpecSite == InitSite /\ [][NextSite]_vars

-----------------------------------------------------------------------------
(* C28 *)

AdminRoutes ==
    { "change_status", "merge_suggestions", "new_announcement", "edit_announcement",
      "delete_announcement", "new_landmark", "delete_landmark", "new_area", "edit_area",
      "toggle_area", "delete_area" }

\* C28: a state-changing admin route (status change, merge, announcement
\* create / edit / delete, landmark create / delete, community-area create /
\* edit / toggle / delete) takes effect only when the requester is logged in
\* and has is_admin true
C28_AdminRoutesNeedAdmin ==
    (served.route \in AdminRoutes /\ served.response = "done")
        => (is_authenticated(served.who) /\ is_admin(served.who))

-----------------------------------------------------------------------------
(* C29 *)

\* C29: a suggestion whose status is not approved is shown by
\* suggestion_detail only to administrators; every other requester,
\* anonymous or logged in, is redirected
C29_UnapprovedShownToAdminsOnly ==
    (/\ served.route = "suggestion_detail"
     /\ Found(suggestion, served.id)
     /\ Row(suggestion, served.id).status # "approved")
        => IF is_admin(served.who) THEN served.response = "shown"
           ELSE served.response = "redirect"

-----------------------------------------------------------------------------
(* The routes that call the AI operations: submit and edit_suggestion of    *)
(* routes.py.  A request is served alone; between two steps of a route the  *)
(* operation it called runs by the steps of the state machine above.        *)

\* the row of a candidate as check_duplicate reads it
Candidate(r) == [id |-> r.id, text |-> r.text, embedding_vector |-> r.embedding_vector]

RECURSIVE InIdOrder(_)
\* the rows of a query in the order of their primary keys
InIdOrder(rows) ==
    IF rows = {} THEN <<>>
    ELSE LET first == CHOOSE r \in rows : \A q \in rows : r.id <= q.id
         IN <<Candidate(first)>> \o InIdOrder(rows \ { first })

\* mutant: the duplicate check is given every suggestion
Approved_any(table) == InIdOrder(table)

\* Suggestion.query.filter_by(status='approved').all()
Approved(table) == InIdOrder({ r \in table : r.status = "approved" })

\* texts an author changes a suggestion to
EditTexts == { "Fix power on Main Rd" }

\* the call of an AI operation and what it returned
Returned == [op |-> op, text |-> text, against |-> existing_suggestions, result |-> result]

\* the AI operation the route called has returned
Back(route, o) == request.route = route /\ op = o /\ pc = "done"

\* the value an operation of the trace returned
TraceResult(tr, o) == tr[CHOOSE k \in 1..Len(tr) : tr[k].op = o].result

\* a route may take a request that calls AI operations
Open == Free /\ pc \in { "idle", "done" } /\ served.n < MaxRequests

\* the request being served has no response yet
Awaited == [NoLast EXCEPT !.n = served.n]

\* the response of a request that called AI operations
RespondAfter(response, id) ==
    served' = [route |-> request.route, who |-> request.who, id |-> id,
               response |-> response, before |-> request.before, form |-> request.form,
               n |-> served.n + 1]

tables == <<suggestion, vote, community_area, announcement, landmark_image>>
others == <<runs, ballots, previous>>

\* POST /submit: the form is read and check_duplicate is called on the
\* approved suggestions
submit_check_duplicate(who, is_anonymous, t, area) ==
    /\ Open
    /\ NextId(suggestion) \in SuggestionIds
    /\ request' = [route |-> "submit", who |-> who, is_anonymous |-> is_anonymous,
                   form |-> [text |-> t, location |-> area], before |-> suggestion]
    /\ trace' = <<>>
    /\ served' = Awaited
    /\ Enter("check_duplicate", t, Approved(suggestion), "sem")
    /\ UNCHANGED <<tables, others>>

\* duplicate.upvotes += 1
Upvoted(row) == [row EXCEPT !.upvotes = row.upvotes + 1]

\* `if duplicate:` the duplicate is upvoted and the request ends
submit_duplicate ==
    /\ Back("submit", "check_duplicate")
    /\ result # None
    /\ suggestion' = Update(suggestion, Upvoted(Row(suggestion, result.id)))
    /\ trace' = Append(trace, Returned)
    /\ RespondAfter("duplicate", result.id)
    /\ request' = NoRequest
    /\ UNCHANGED <<keys, ai_service_status, core, others, vote, community_area,
                   announcement, landmark_image>>

\* no duplicate: categorize is called
submit_categorize ==
    /\ Back("submit", "check_duplicate")
    /\ result = None
    /\ trace' = Append(trace, Returned)
    /\ Enter("categorize", request.form.text, <<>>, "probe")
    /\ UNCHANGED <<tables, request, served, others>>

submit_summarize ==
    /\ Back("submit", "categorize")
    /\ trace' = Append(trace, Returned)
    /\ Enter("summarize", request.form.text, <<>>, "probe")
    /\ UNCHANGED <<tables, request, served, others>>

submit_analyze_sentiment ==
    /\ Back("submit", "summarize")
    /\ trace' = Append(trace, Returned)
    /\ Enter("analyze_sentiment", request.form.text, <<>>, "probe")
    /\ UNCHANGED <<tables, request, served, others>>

submit_get_embedding ==
    /\ Back("submit", "analyze_sentiment")
    /\ trace' = Append(trace, Returned)
    /\ Enter("get_embedding", request.form.text, <<>>, "embed")
    /\ UNCHANGED <<tables, request, served, others>>

\* json.dumps(embedding) if embedding else None
embedding_str(embedding) ==
    IF embedding = None \/ embedding.list = <<>> THEN NULL ELSE JsonDumps(embedding.list)

\* 'approved' if current_user.is_authenticated and not is_anonymous else 'pending'
default_status(who, is_anonymous) ==
    IF is_authenticated(who) /\ ~is_anonymous THEN "approved" ELSE "pending"

\* the row Suggestion(...) of submit; the columns it does not name take the
\* defaults of the model: zero votes, can_edit true
new_sugg(id, who, is_anonymous, form, tr, embedding) ==
    [id |-> id, text |-> form.text,
     category |-> TraceResult(tr, "categorize"),
     summary |-> TraceResult(tr, "summarize"),
     sentiment |-> TraceResult(tr, "analyze_sentiment"),
     location |-> form.location,
     status |-> default_status(who, is_anonymous),
     upvotes |-> 0, downvotes |-> 0,
     embedding_vector |-> embedding_str(embedding),
     author_id |-> IF is_authenticated(who) THEN who ELSE NULL,
     can_edit |-> TRUE]

\* the new suggestion is added and committed
submit_commit ==
    /\ Back("submit", "get_embedding")
    /\ LET id == NextId(suggestion) IN
        /\ suggestion' = Insert(suggestion, new_sugg(id, request.who, request.is_anonymous,
                                                     request.form, trace, result))
        /\ RespondAfter("stored", id)
    /\ trace' = Append(trace, Returned)
    /\ request' = NoRequest
    /\ UNCHANGED <<keys, ai_service_status, core, others, vote, community_area,
                   announcement, landmark_image>>

\* why edit_suggestion does not run its POST branch
EditRefusal(who, sugg_id) ==
    IF ~login_required(who) THEN "login"
    ELSE IF ~Found(suggestion, sugg_id) THEN "404"
    ELSE IF Row(suggestion, sugg_id).author_id # who THEN "not author"
    ELSE IF ~Row(suggestion, sugg_id).can_edit THEN "locked"
    ELSE "none"

\* POST /suggestion/<sugg_id>/edit stopped by login_required, get_or_404,
\* the author test or the can_edit test
edit_suggestion_refused(who, sugg_id) ==
    /\ Free
    /\ EditRefusal(who, sugg_id) # "none"
    /\ Respond("edit_suggestion", who, sugg_id, EditRefusal(who, sugg_id))
    /\ UNCHANGED <<aside, tables>>

\* POST /suggestion/<sugg_id>/edit: text and location are set and categorize
\* is called
edit_suggestion_categorize(who, sugg_id, t, area) ==
    /\ Open
    /\ EditRefusal(who, sugg_id) = "none"
    /\ request' = [route |-> "edit_suggestion", who |-> who, id |-> sugg_id,
                   form |-> [text |-> t, location |-> area], before |-> suggestion]
    /\ trace' = <<>>
    /\ served' = Awaited
    /\ Enter("categorize", t, <<>>, "probe")
    /\ UNCHANGED <<tables, others>>

edit_suggestion_summarize ==
    /\ Back("edit_suggestion", "categorize")
    /\ trace' = Append(trace, Returned)
    /\ Enter("summarize", request.form.text, <<>>, "probe")
    /\ UNCHANGED <<tables, request, served, others>>

edit_suggestion_analyze_sentiment ==
    /\ Back("edit_suggestion", "summarize")
    /\ trace' = Append(trace, Returned)
    /\ Enter("analyze_sentiment", request.form.text, <<>>, "probe")
    /\ UNCHANGED <<tables, request, served, others>>

\* mutant: the edit also clears the stored embedding
Edited_reembedded(row, form, tr) ==
    [row EXCEPT !.text = form.text, !.location = form.location,
                !.category = TraceResult(tr, "categorize"),
                !.summary = TraceResult(tr, "summarize"),
                !.sentiment = TraceResult(tr, "analyze_sentiment"),
                !.embedding_vector = NULL]

\* the columns edit_suggestion assigns
Edited(row, form, tr) ==
    [row EXCEPT !.text = form.text, !.location = form.location,
                !.category = TraceResult(tr, "categorize"),
                !.summary = TraceResult(tr, "summarize"),
                !.sentiment = TraceResult(tr, "analyze_sentiment")]

\* the edited suggestion is committed
edit_suggestion_commit ==
    /\ Back("edit_suggestion", "analyze_sentiment")
    /\ trace' = Append(trace, Returned)
    /\ suggestion' = Update(suggestion, Edited(Row(suggestion, request.id), request.form,
                                               trace'))
    /\ RespondAfter("done", request.id)
    /\ request' = NoRequest
    /\ UNCHANGED <<keys, ai_service_status, core, others, vote, community_area,
                   announcement, landmark_image>>

\* a process configured with the keys of Gemini and Groq; the seed
\* suggestions and one a registered user wrote
InitSubmit ==
    /\ GEMINI_API_KEY = TRUE
    /\ GROQ_API_KEY = TRUE
    /\ OPENROUTER_API_KEY = FALSE
    /\ ai_service_status = [s \in Services |-> FALSE]
    /\ metrics = <<>>
    /\ CoreIdle
    /\ runs = <<>>
    /\ suggestion = SeedSuggestions \cup { AuthoredSuggestion }
    /\ vote = {}
    /\ community_area = {}
    /\ announcement = {}
    /\ landmark_image = {}
    /\ request = NoRequest
    /\ trace = <<>>
    /\ served = NoLast
    /\ ballots = <<>>

NextSubmit ==
    \/ \E who \in { "anonymous", "uma" }, is_anonymous \in BOOLEAN, t \in NewTexts :
           submit_check_duplicate(who, is_anonymous, t, "Ila Central")
    \/ submit_duplicate
    \/ submit_categorize
    \/ submit_summarize
    \/ submit_analyze_sentiment
    \/ submit_get_embedding
    \/ submit_commit
    \/ /\ served.n < MaxRequests
       /\ \E who \in Requesters, id \in Named(suggestion) : edit_suggestion_refused(who, id)
    \/ \E who \in Requesters, id \in Named(suggestion), t \in EditTexts :
           edit_suggestion_categorize(who, id, t, "Oke Ola")
    \/ edit_suggestion_summarize
    \/ edit_suggestion_analyze_sentiment
    \/ edit_suggestion_commit
    \/ /\ served.n < MaxRequests
       /\ \E id \in Ids(suggestion), status \in { "approved", "pending" } :
              change_status("ada", id, status)
    \/ check_ai_service_status
    \/ get_available_providers
    \/ is_semantically_similar
    \/ ProviderAttempt
    \/ LocalFallback
    \/ get_embedding
    \/ check_duplicate_passes

SpecSubmit == InitSubmit /\ [][NextSubmit]_vars

-----------------------------------------------------------------------------
(* C22 *)

\* the operations of a trace, in the order of the calls
Called(tr) == [k \in 1..Len(tr) |-> tr[k].op]

\* a submission has been served and nothing since
Submitted == served.route = "submit" /\ request = NoRequest

\* C22: a submission first runs the duplicate check, on the approved
\* suggestions only; if it finds a duplicate, that suggestion's upvotes grow
\* by exactly one, no suggestion is stored and no other AI operation is
\* called; otherwise categorize, summarize, analyze_sentiment and
\* get_embedding run in that order on the submitted text and exactly one
\* suggestion, built from their results, is stored
C22_SubmitChecksThenStores ==
    Submitted =>
        LET before == served.before
            approved == { r.id : r \in { q \in before : q.status = "approved" } }
            first == trace[1]
        IN  /\ first.op = "check_duplicate"
            /\ first.text = served.form.text
            /\ { first.against[k].id : k \in 1..Len(first.against) } = approved
            /\ IF first.result # None
               THEN /\ Len(trace) = 1
                    /\ first.result.id \in approved
                    /\ Ids(suggestion) = Ids(before)
                    /\ \A r \in before :
                         Row(suggestion, r.id) =
                             IF r.id = first.result.id
                             THEN [r EXCEPT !.upvotes = r.upvotes + 1] ELSE r
               ELSE /\ Called(trace) = <<"check_duplicate", "categorize", "summarize",
                                         "analyze_sentiment", "get_embedding">>
                    /\ \A k \in 1..Len(trace) : trace[k].text = served.form.text
                    /\ before \subseteq suggestion
                    /\ Cardinality(suggestion) = Cardinality(before) + 1
                    /\ \A r \in suggestion \ before :
                         /\ r.text = served.form.text
                         /\ r.category = trace[2].result
                         /\ r.summary = trace[3].result
                         /\ r.sentiment = trace[4].result
                         /\ r.upvotes = 0 /\ r.downvotes = 0

\* the text at ratio 95 to the pending suggestion 1 and at ratio 90 to the
\* approved suggestion 2 is reported as a duplicate of 2, which is upvoted
C22_DuplicateOfApprovedUpvoted ==
    /\ Submitted
    /\ served.form.text = "Fix Main Road lights"
    /\ Row(served.before, 1).status = "pending"
    /\ trace[1].result # None
    /\ trace[1].result.id = 2
    /\ Row(suggestion, 2).upvotes = 1

-----------------------------------------------------------------------------
(* C27 *)

\* an edit has been committed and nothing since
Edit_done ==
    served.route = "edit_suggestion" /\ served.response = "done" /\ request = NoRequest

\* C27: an approved suggestion has can_edit false in every reachable state,
\* so edit_suggestion never changes the text of an approved suggestion; a
\* suggestion's text changes only when the requester is its author
C27_ApprovedIsLocked ==
    /\ \A s \in suggestion : s.status = "approved" => ~s.can_edit
    /\ Edit_done =>
         /\ Row(served.before, served.id).status # "approved"
         /\ Row(served.before, served.id).author_id = served.who

-----------------------------------------------------------------------------
(* C30 *)

\* C30: a successful edit_suggestion re-derives category, summary and
\* sentiment from the new text and updates text and location; it leaves
\* embedding_vector, status, can_edit, upvotes and downvotes as they were
\* and runs no duplicate check (and no get_embedding)
C30_EditRederivesThreeColumns ==
    Edit_done =>
        LET old == Row(served.before, served.id)
            new == Row(suggestion, served.id)
        IN  /\ Called(trace) = <<"categorize", "summarize", "analyze_sentiment">>
            /\ \A k \in 1..Len(trace) : trace[k].text = served.form.text
            /\ new.text = served.form.text
            /\ new.location = served.form.location
            /\ new.category = trace[1].result
            /\ new.summary = trace[2].result
            /\ new.sentiment = trace[3].result
            /\ new.embedding_vector = old.embedding_vector
            /\ new.status = old.status
            /\ new.can_edit = old.can_edit
            /\ new.upvotes = old.upvotes
            /\ new.downvotes = old.downvotes
            /\ new.author_id = old.author_id
            /\ suggestion \ { new } = served.before \ { old }

\* an edit gave the suggestion another text and a category a provider chose,
\* and the stored embedding is still the one of the text it replaced
C30_EditedKeepsOldEmbedding ==
    /\ Edit_done
    /\ Row(suggestion, served.id).text # Row(served.before, served.id).text
    /\ Row(suggestion, served.id).category = Str("Water")
    /\ Row(suggestion, served.id).embedding_vector = "[1, 0]"

-----------------------------------------------------------------------------
(* The vote route of routes.py.  The view reads the suggestion and the      *)
(* voter's vote, assigns the counters from the values it read, and commits: *)
(* the UPDATE carries the columns it assigned, the vote row is inserted,    *)
(* updated or deleted.                                                      *)

\* values of <vote_type> in the URL: any string is routed to the view
VoteTypes == { "up", "down", "sideways" }

\* session['session_id'] of the browser of the anonymous visitor
session_id == "s1"

\* no vote request is being served by this thread
NoBallot == [pc |-> "idle"]

\* Vote.query.filter_by(suggestion_id=sugg_id, user_id=current_user.id), or
\* filter_by(suggestion_id=sugg_id, session_id=session_id)
Mine(who, sugg_id) ==
    IF is_authenticated(who)
    THEN { v \in vote : v.suggestion_id = sugg_id /\ v.user_id = who }
    ELSE { v \in vote : v.suggestion_id = sugg_id /\ v.session_id = session_id }

\* .first(): a row of the query, None if it has none
First(rows) == IF rows = {} THEN { None } ELSE rows

\* what the view has read
Ballot(who, sugg_id, vote_type, existing_vote) ==
    [pc |-> "loaded", who |-> who, id |-> sugg_id, vote_type |-> vote_type,
     sugg |-> Row(suggestion, sugg_id), existing_vote |-> existing_vote]

\* the counters the view assigns, computed from the row it read
Tally(b) ==
    LET s == b.sugg
        up == b.vote_type = "up"
    IN  IF b.existing_vote # None /\ b.existing_vote.vote_type = b.vote_type
        THEN IF up THEN [upvotes |-> s.upvotes - 1] ELSE [downvotes |-> s.downvotes - 1]
        ELSE IF b.existing_vote # None
        THEN IF up THEN [upvotes |-> s.upvotes + 1, downvotes |-> s.downvotes - 1]
             ELSE [downvotes |-> s.downvotes + 1, upvotes |-> s.upvotes - 1]
        ELSE IF up THEN [upvotes |-> s.upvotes + 1] ELSE [downvotes |-> s.downvotes + 1]

\* the UPDATE of the suggestion row sets the assigned columns
Written(row, tally) ==
    [row EXCEPT !.upvotes = IF "upvotes" \in DOMAIN tally THEN tally.upvotes ELSE @,
                !.downvotes = IF "downvotes" \in DOMAIN tally THEN tally.downvotes ELSE @]

\* Vote(suggestion_id, vote_type, user_id) of a registered user, and
\* Vote(suggestion_id, vote_type, session_id) of an anonymous visitor
new_vote(b) ==
    [id |-> NextId(vote), suggestion_id |-> b.id, vote_type |-> b.vote_type,
     user_id |-> IF is_authenticated(b.who) THEN b.who ELSE NULL,
     session_id |-> IF is_authenticated(b.who) THEN NULL ELSE session_id]

\* the commit raises and the transaction is rolled back: an UPDATE matches
\* no row (the suggestion was merged away, the vote was deleted), or the new
\* vote has no session_id, which the column does not allow (models.py:78)
CommitRaises(b) ==
    \/ ~Found(suggestion, b.id)
    \/ /\ b.existing_vote # None
       /\ b.existing_vote.vote_type # b.vote_type
       /\ ~Found(vote, b.existing_vote.id)
    \/ /\ b.existing_vote = None
       /\ new_vote(b).session_id = NULL

\* the vote table after the commit; a DELETE that matches no row only warns
Votes(b) ==
    IF b.existing_vote # None /\ b.existing_vote.vote_type = b.vote_type
    THEN Delete(vote, b.existing_vote.id)
    ELSE IF b.existing_vote # None
    THEN Update(vote, [Row(vote, b.existing_vote.id) EXCEPT !.vote_type = b.vote_type])
    ELSE Insert(vote, new_vote(b))

\* the message the view flashes
Flashed(b) ==
    IF b.existing_vote # None /\ b.existing_vote.vote_type = b.vote_type THEN "removed"
    ELSE IF b.existing_vote # None THEN "updated"
    ELSE "recorded"

\* the tables after db.session.commit() of the view
Cast(b) ==
    IF CommitRaises(b)
    THEN [suggestion |-> suggestion, vote |-> vote, response |-> "500"]
    ELSE [suggestion |-> Update(suggestion, Written(Row(suggestion, b.id), Tally(b))),
          vote |-> Votes(b), response |-> Flashed(b)]

\* the suggestion and the vote table still take a vote in the model
Countable(sugg_id) ==
    /\ NextId(vote) <= MaxVoteId
    /\ Found(suggestion, sugg_id) =>
         /\ Row(suggestion, sugg_id).upvotes \in -MaxVotes..MaxVotes
         /\ Row(suggestion, sugg_id).downvotes \in -MaxVotes..MaxVotes

\* POST /vote/<sugg_id>/<vote_type> up to the two queries
vote_query(t, who, sugg_id, vote_type) ==
    /\ Free
    /\ ballots[t] = NoBallot
    /\ Countable(sugg_id)
    /\ IF ~Found(suggestion, sugg_id)
       THEN Respond("vote", who, sugg_id, "404") /\ UNCHANGED ballots
       ELSE /\ \E existing_vote \in First(Mine(who, sugg_id)) :
                 ballots' = [ballots EXCEPT ![t] = Ballot(who, sugg_id, vote_type,
                                                          existing_vote)]
            /\ UNCHANGED served
    /\ UNCHANGED <<keys, ai_service_status, core, runs, request, trace, tables>>

\* the rest of the view: the assignments and the commit
vote_commit(t) ==
    /\ ballots[t] # NoBallot
    /\ LET b == ballots[t] IN
        /\ suggestion' = Cast(b).suggestion
        /\ vote' = Cast(b).vote
        /\ Respond("vote", b.who, b.id, Cast(b).response)
    /\ ballots' = [ballots EXCEPT ![t] = NoBallot]
    /\ UNCHANGED <<keys, ai_service_status, core, runs, request, trace, community_area,
                   announcement, landmark_image>>

\* a process that serves vote requests on threads; the feed shows the
\* approved suggestion
InitVote ==
    /\ GEMINI_API_KEY = FALSE
    /\ GROQ_API_KEY = FALSE
    /\ OPENROUTER_API_KEY = FALSE
    /\ ai_service_status = [s \in Services |-> FALSE]
    /\ metrics = <<>>
    /\ CoreIdle
    /\ runs = <<>>
    /\ suggestion = { r \in SeedSuggestions : r.status = "approved" }
    /\ vote = {}
    /\ community_area = {}
    /\ announcement = {}
    /\ landmark_image = {}
    /\ request = NoRequest
    /\ trace = <<>>
    /\ served = NoLast
    /\ ballots = [t \in Threads |-> NoBallot]

Voters == { "anonymous", "uma" }

NextVote ==
    \/ \E t \in Threads, who \in Voters, id \in Named(suggestion), vote_type \in VoteTypes :
           vote_query(t, who, id, vote_type)
    \/ \E t \in Threads : vote_commit(t)

SpecVote == InitVote /\ [][NextVote]_vars

-----------------------------------------------------------------------------
(* C24 *)

\* C24: after any sequence of vote requests, concurrent ones of one voter
\* included, the vote table holds at most one row per suggestion and
\* registered user, and at most one per suggestion and anonymous session id
C24_OneVotePerVoter ==
    \A v, w \in vote :
        (/\ v.suggestion_id = w.suggestion_id
         /\ \/ v.user_id # NULL /\ v.user_id = w.user_id
            \/ v.session_id # NULL /\ v.session_id = w.session_id)
            => v = w

-----------------------------------------------------------------------------
(* Requests served one after the other: submissions, votes and merges *)

\* the request served last was the first vote of this voter on this suggestion
Succession(who, sugg_id) ==
    /\ served.route = "vote"
    /\ served.response # "404"
    /\ served.who = who
    /\ served.id = sugg_id
    /\ served.form.fresh

\* POST /vote/<sugg_id>/<vote_type> served alone: the queries, the
\* assignments and the commit
vote_alone(who, sugg_id, vote_type) ==
    /\ Free
    /\ Countable(sugg_id)
    /\ IF ~Found(suggestion, sugg_id)
       THEN Respond("vote", who, sugg_id, "404") /\ UNCHANGED <<suggestion, vote>>
       ELSE \E existing_vote \in First(Mine(who, sugg_id)) :
              LET b == Ballot(who, sugg_id, vote_type, existing_vote)
                  again == Succession(who, sugg_id)
              IN  /\ suggestion' = Cast(b).suggestion
                  /\ vote' = Cast(b).vote
                  /\ served' =
                       [route |-> "vote", who |-> who, id |-> sugg_id,
                        response |-> Cast(b).response,
                        before |-> [suggestion |-> suggestion, vote |-> vote],
                        form |-> [vote_type |-> vote_type,
                                  fresh |-> existing_vote = None,
                                  first |-> IF again THEN served.form.vote_type ELSE "none",
                                  origin |-> IF again THEN served.before ELSE {}],
                        n |-> served.n]
    /\ UNCHANGED <<aside, community_area, announcement, landmark_image>>

\* a process without provider keys, whose AI operations fall back to the
\* local rules; the seed suggestions with no votes
InitPoll ==
    /\ GEMINI_API_KEY = FALSE
    /\ GROQ_API_KEY = FALSE
    /\ OPENROUTER_API_KEY = FALSE
    /\ ai_service_status = [s \in Services |-> FALSE]
    /\ metrics = <<>>
    /\ CoreIdle
    /\ runs = <<>>
    /\ suggestion = SeedSuggestions
    /\ vote = {}
    /\ community_area = {}
    /\ announcement = {}
    /\ landmark_image = {}
    /\ request = NoRequest
    /\ trace = <<>>
    /\ served = NoLast
    /\ ballots = <<>>

NextPoll ==
    \/ \E who \in Voters, id \in Named(suggestion), vote_type \in VoteTypes :
           vote_alone(who, id, vote_type)
    \/ \E id, target_id \in Ids(suggestion) : merge_suggestions("ada", id, target_id)
    \/ \E who \in Voters, t \in NewTexts :
           submit_check_duplicate(who, FALSE, t, "Ila Central")
    \/ submit_duplicate
    \/ submit_categorize
    \/ submit_summarize
    \/ submit_analyze_sentiment
    \/ submit_get_embedding
    \/ submit_commit
    \/ check_ai_service_status
    \/ get_available_providers
    \/ is_semantically_similar
    \/ LocalFallback
    \/ get_embedding
    \/ check_duplicate_passes

SpecPoll == InitPoll /\ [][NextPoll]_vars

-----------------------------------------------------------------------------
(* C25 *)

\* C25: after any sequence of submit, vote and merge operations that starts
\* from suggestions with zero counts, upvotes and downvotes of every
\* suggestion are non-negative, whatever vote_type the URL carried
C25_CountsNonNegative == \A s \in suggestion : s.upvotes >= 0 /\ s.downvotes >= 0

-----------------------------------------------------------------------------
(* C26 *)

\* C26: for a voter with no vote on a suggestion, casting the same vote
\* type twice in succession leaves the counters and the Vote rows exactly
\* as before the first vote; casting the opposite type as the second vote
\* moves exactly one unit from one counter to the other and keeps a single
\* Vote row of the voter
C26_TwiceUndoesOppositeMoves ==
    (served.route = "vote" /\ served.response # "404" /\ served.form.first # "none") =>
        LET first == served.form.first
            second == served.form.vote_type
            s1 == Row(served.before.suggestion, served.id)
            s2 == Row(suggestion, served.id)
            mine == Mine(served.who, served.id)
        IN  /\ second = first =>
                 /\ suggestion = served.form.origin.suggestion
                 /\ vote = served.form.origin.vote
            /\ (first = "up" /\ second = "down") =>
                 /\ s2.upvotes = s1.upvotes - 1 /\ s2.downvotes = s1.downvotes + 1
                 /\ Cardinality(mine) = 1 /\ \A v \in mine : v.vote_type = "down"
            /\ (first = "down" /\ second = "up") =>
                 /\ s2.upvotes = s1.upvotes + 1 /\ s2.downvotes = s1.downvotes - 1
                 /\ Cardinality(mine) = 1 /\ \A v \in mine : v.vote_type = "up"

====
